---- MODULE Spec2Model ----
(***************************************************************************)
(* Model of the claudeskill-manager sync service: the server's version     *)
(* chain (routes/skills.ts, db/index.ts), the CLI's sync logic (sync.ts),  *)
(* the local skill listing (core/skills.ts) and the key set-up flows.      *)
(***************************************************************************)
EXTENDS Integers, Sequences, FiniteSets, TLC

(***************************************************************************)
(* Bounds of the model.                                                    *)
(***************************************************************************)
MaxPushes == 4
\* the server's clock stops the pushes when it reaches MaxClock
MaxClock == 7

Contents == {"X", "Y", "Z"}
ContentOrder == <<"X", "Y", "Z">>
Names == {"n1"}
NameOrder == <<"n1">>
FileNames == {[base |-> "a", ext |-> ".txt"], [base |-> "b", ext |-> ".txt"]}
FileNameOrder == <<[base |-> "a", ext |-> ".txt"], [base |-> "b", ext |-> ".txt"]>>
IVs == {"iv1", "iv2"}
MasterKeys == {"mk1", "mk2"}
ReqIds == {1}

(***************************************************************************)
(* Values.                                                                 *)
(***************************************************************************)
\* schema.ts: current_hash / parent_hash are nullable text columns
NullHash == 0
\* schema.ts: message is a nullable text column; api.ts sends undefined
NullMessage == "NULL"

SkillTypes == {"command", "skill", "agent"}
TypeOrder == <<"command", "skill", "agent">>

IdxOf(seq, x) == CHOOSE i \in 1..Len(seq) : seq[i] = x

\* getSkillKey: `${skill.type}:${skill.name}`
GetSkillKey(skill) == <<skill.type, skill.name>>

\* skill.files is undefined for a skill without supporting files
NoFiles == [defined |-> FALSE, list |-> <<>>]
SomeFiles(list) == [defined |-> TRUE, list |-> list]

(***************************************************************************)
(* Content addressing: computeSkillHash / computeContentHash.  The digest  *)
(* of the canonical JSON {name, type, content, files} is modelled by an    *)
(* injective integer code of exactly those four fields, files in list      *)
(* order.                                                                  *)
(***************************************************************************)
FileCode(f) ==
  (IdxOf(FileNameOrder, f.name) - 1) * Len(ContentOrder) + IdxOf(ContentOrder, f.content)

FileBase == Len(FileNameOrder) * Len(ContentOrder)

RECURSIVE FilesCode(_)
FilesCode(list) ==
  IF list = <<>> THEN 0
  ELSE FileCode(Head(list)) + FileBase * FilesCode(Tail(list))

ComputeContentHash(name, type, content, list) ==
  1 + (IdxOf(NameOrder, name) - 1)
    + Len(NameOrder) * ((IdxOf(TypeOrder, type) - 1)
    + Len(TypeOrder) * ((IdxOf(ContentOrder, content) - 1)
    + Len(ContentOrder) * FilesCode(list)))

ComputeSkillHash(skill) ==
  ComputeContentHash(skill.name, skill.type, skill.content,
                     IF skill.files.defined THEN skill.files.list ELSE <<>>)

(***************************************************************************)
(* AEAD envelope: encrypt / decrypt (AES-256-GCM).  The ciphertext and the *)
(* tag are determined by key, iv and plaintext; the iv is the random value *)
(* encrypt draws, passed in by the caller's action.                        *)
(***************************************************************************)
Encrypt(plaintext, key, iv) ==
  [ciphertext |-> [k |-> key, iv |-> iv, p |-> plaintext],
   iv |-> iv,
   tag |-> [k |-> key, iv |-> iv, p |-> plaintext]]

\* a variant that returns the plaintext without authenticating it
DecryptUnchecked(ciphertext, key, iv, tag) ==
  [ok |-> TRUE, plaintext |-> ciphertext.p]

Decrypt(ciphertext, key, iv, tag) ==
  IF ciphertext.k = key /\ ciphertext.iv = iv
     /\ tag = [k |-> key, iv |-> iv, p |-> ciphertext.p]
  THEN [ok |-> TRUE, plaintext |-> ciphertext.p]
  ELSE [ok |-> FALSE, plaintext |-> ciphertext.p]

\* encryptSkill: the JSON payload of a skill, encrypted under the master key
SkillPayload(skill) ==
  [name |-> skill.name, content |-> skill.content, path |-> skill.path,
   type |-> skill.type, files |-> skill.files]

EncryptSkill(skill, key, iv) ==
  LET e == Encrypt(SkillPayload(skill), key, iv)
  IN  [encryptedData |-> e.ciphertext, iv |-> e.iv, tag |-> e.tag]

\* decryptSkill
DecryptSkill(encryptedData, iv, tag, key) ==
  Decrypt(encryptedData, key, iv, tag)

\* a variant that names the skill on the server by its type and body
PushRequestByBody(skill, key, iv, message) ==
  LET e == EncryptSkill(skill, key, iv)
  IN  [skillKey |-> <<skill.type, skill.content>>,
       body |-> [hash |-> ComputeSkillHash(skill),
                 encryptedData |-> e.encryptedData, iv |-> e.iv, tag |-> e.tag,
                 message |-> message]]

\* api.pushSkillVersion: the request the CLI sends for one skill
PushRequest(skill, key, iv, message) ==
  LET e == EncryptSkill(skill, key, iv)
  IN  [skillKey |-> GetSkillKey(skill),
       body |-> [hash |-> ComputeSkillHash(skill),
                 encryptedData |-> e.encryptedData, iv |-> e.iv, tag |-> e.tag,
                 message |-> message]]

(***************************************************************************)
(* Keys (core/crypto.ts) and the messages of the CLI (api.ts).             *)
(***************************************************************************)
Passphrases == {"pw1", "pw2"}
Salts == {"s1", "s2"}
Email == "u@example.org"
OtpCode == "123456"

\* crypto.ts: the lengths, in bytes, of an AES-256 key, a GCM iv and a GCM tag
AES_KEY_LENGTH == 32
AES_IV_LENGTH == 12
AES_TAG_LENGTH == 16

\* argon2id(secret, salt, ...): determined by the secret's bytes and the salt
Argon2id(secret, salt) == "dk:" \o secret \o ":" \o salt

\* deriveKeyFromPassphrase
DeriveKeyFromPassphrase(passphrase, salt) == Argon2id(passphrase, salt)

DerivedKeys == {DeriveKeyFromPassphrase(p, s) : p \in Passphrases, s \in Salts}

(***************************************************************************)
(* Recovery keys.  A byte is scaled to two bits, and WORDLIST with it from *)
(* 2^8 to 2^2 distinct lower-case words without hyphen or blank.  A text   *)
(* is the sequence of its tokens: words, in upper or lower case, and       *)
(* separators.                                                             *)
(***************************************************************************)
ByteValues == 0..3
WORDLIST == <<"apple", "armor", "arrow", "badge">>
UpperWords == <<"APPLE", "ARMOR", "ARROW", "BADGE">>
Separators == {"-", " "}

\* the number of bytes and words of a recovery key
RecoveryKeyLength == 8

\* the text of a byte sequence
ByteText == <<"0", "1", "2", "3">>

RECURSIVE BytesText(_)
BytesText(bytes) ==
  IF bytes = <<>> THEN "" ELSE ByteText[Head(bytes) + 1] \o BytesText(Tail(bytes))

\* Array.indexOf: the first position (from 0) of a word, -1 without it
IndexOf(list, word) ==
  IF \E i \in 1..Len(list) : list[i] = word
  THEN (CHOOSE i \in 1..Len(list) :
          list[i] = word /\ \A j \in 1..(i - 1) : list[j] # word) - 1
  ELSE -1

ToUpperCase(token) ==
  IF IndexOf(WORDLIST, token) >= 0 THEN UpperWords[IndexOf(WORDLIST, token) + 1] ELSE token

ToLowerCase(token) ==
  IF IndexOf(UpperWords, token) >= 0 THEN WORDLIST[IndexOf(UpperWords, token) + 1] ELSE token

\* a word list whose last word repeats the first
WordListWithRepeat(bytes) ==
  LET list == [i \in 1..Len(WORDLIST) |-> IF i = Len(WORDLIST) THEN WORDLIST[1] ELSE WORDLIST[i]]
  IN  [words |-> [i \in 1..Len(bytes) |-> list[(bytes[i] % Len(list)) + 1]],
       bytes |-> bytes]

\* generateRecoveryKey, for the random bytes it drew
GenerateRecoveryKey(bytes) ==
  [words |-> [i \in 1..Len(bytes) |-> WORDLIST[(bytes[i] % Len(WORDLIST)) + 1]],
   bytes |-> bytes]

\* no recovery key: null
NoRecoveryKey == [words |-> <<>>, bytes |-> <<>>]

\* words.map(toUpperCase).join("-")
RECURSIVE Join(_, _)
Join(words, sep) ==
  IF words = <<>> THEN <<>>
  ELSE IF Len(words) = 1 THEN words
  ELSE <<Head(words), sep>> \o Join(Tail(words), sep)

FormatRecoveryKey(recoveryKey) ==
  Join([i \in 1..Len(recoveryKey.words) |-> ToUpperCase(recoveryKey.words[i])], "-")

\* parseRecoveryKey: lower case, split at hyphens and blanks, eight words of
\* the list, their indices as bytes; null otherwise
ParseRecoveryKey(wordsInput) ==
  LET lower == [i \in 1..Len(wordsInput) |-> ToLowerCase(wordsInput[i])]
      isWord(t) == t \notin Separators
      words == SelectSeq(lower, isWord)
      indices == [i \in 1..Len(words) |-> IndexOf(WORDLIST, words[i])]
  IN  IF Len(words) # RecoveryKeyLength THEN NoRecoveryKey
      ELSE IF \E i \in 1..Len(indices) : indices[i] = -1 THEN NoRecoveryKey
      ELSE [words |-> words, bytes |-> indices]

\* deriveKeyFromRecoveryKey: Argon2id of the recovery key's bytes
DeriveKeyFromRecoveryKey(recoveryKey, salt) == Argon2id(BytesText(recoveryKey.bytes), salt)

\* the random values a device draws in setup: the salt, and the bytes of the
\* recovery key
RandomSalt == [d \in {"d1", "d2"} |-> IF d = "d1" THEN "s1" ELSE "s2"]
RandomRecoveryBytes ==
  [d \in {"d1", "d2"} |->
     IF d = "d1" THEN <<0, 1, 2, 3, 3, 2, 1, 0>> ELSE <<3, 3, 0, 0, 1, 1, 2, 2>>]

RecoveryBytes == {RandomRecoveryBytes[d] : d \in DOMAIN RandomRecoveryBytes}

RecoveryKeys == {GenerateRecoveryKey(b) : b \in RecoveryBytes}

\* what must not leave the device: passphrases, derived keys, master keys, and
\* the words, the bytes and the derived keys of recovery keys
Secrets ==
  Passphrases \cup DerivedKeys \cup MasterKeys
    \cup {WORDLIST[i] : i \in 1..Len(WORDLIST)}
    \cup {UpperWords[i] : i \in 1..Len(UpperWords)}
    \cup {BytesText(b) : b \in RecoveryBytes}
    \cup {DeriveKeyFromRecoveryKey(rk, s) : rk \in RecoveryKeys, s \in Salts}

(***************************************************************************)
(* Byte sequences.  The bytes of a value are modelled by the value's part  *)
(* name, the value, their position and the value's length, so that a slice *)
(* is the value again exactly when it starts at the value's first byte and *)
(* ends at its last.                                                       *)
(***************************************************************************)
BytesOf(part, x, n) == [i \in 1..n |-> [part |-> part, at |-> i, len |-> n, of |-> x]]

\* Uint8Array.slice(start, end)
Slice(bytes, start, end) ==
  SubSeq(bytes, start + 1, IF end > Len(bytes) THEN Len(bytes) ELSE end)

\* whether a byte sequence is all of the bytes of one value of the given part
IsWhole(bytes, part) ==
  /\ bytes # <<>>
  /\ \A i \in 1..Len(bytes) :
       /\ bytes[i].part = part
       /\ bytes[i].at = i
       /\ bytes[i].len = Len(bytes)

ValueOf(bytes) == bytes[1].of

\* toBase64 / fromBase64: the text form of bytes, and back
ToBase64(bytes) == [b64 |-> bytes]
FromBase64(base64) == base64.b64

\* a missing salt or wrapped key: null, or the empty text
NoSalt == ToBase64("")
NoBlob == ToBase64(<<>>)

EncryptMasterKey(masterKey, derivedKey, iv) ==
  LET e == Encrypt(masterKey, derivedKey, iv)
  IN  [encrypted |-> e.ciphertext, iv |-> e.iv, tag |-> e.tag]

DecryptMasterKey(encryptedMasterKey, derivedKey, iv, tag) ==
  Decrypt(encryptedMasterKey, derivedKey, iv, tag)

\* the bytes of an encrypted master key: iv, tag, and a ciphertext as long as
\* the key
IvBytes(e) == BytesOf("iv", e.iv, AES_IV_LENGTH)
TagBytes(e) == BytesOf("tag", e.tag, AES_TAG_LENGTH)
CiphertextBytes(e) == BytesOf("ciphertext", e.encrypted, AES_KEY_LENGTH)

\* a variant that wraps the master key under the master key itself
WrapMasterKeyUnderItself(masterKey, derivedKey, iv) ==
  LET e == EncryptMasterKey(masterKey, masterKey, iv)
  IN  IvBytes(e) \o TagBytes(e) \o CiphertextBytes(e)

\* a variant that puts the tag first
WrapMasterKeyTagFirst(masterKey, derivedKey, iv) ==
  LET e == EncryptMasterKey(masterKey, derivedKey, iv)
  IN  TagBytes(e) \o IvBytes(e) \o CiphertextBytes(e)

\* encryptedMasterKeyFull: iv, tag and ciphertext of the wrapped master key,
\* concatenated
WrapMasterKey(masterKey, derivedKey, iv) ==
  LET e == EncryptMasterKey(masterKey, derivedKey, iv)
  IN  IvBytes(e) \o TagBytes(e) \o CiphertextBytes(e)

\* the credentials file
Credentials(accessToken, refreshToken, encryptedMasterKey, salt) ==
  [accessToken |-> accessToken, refreshToken |-> refreshToken,
   encryptedMasterKey |-> encryptedMasterKey, salt |-> salt]

NoCredentials == Credentials("", "", NoBlob, NoSalt)

NoMasterKey == "none"

\* the master key in a wrapped key, sliced at 12 and 28 and decrypted under a
\* derived key; null when decryption throws: a slice that is not the iv, the
\* tag or the ciphertext, or a wrong key
Unwrap(encryptedMasterKey, derivedKey) ==
  LET iv == Slice(encryptedMasterKey, 0, 12)
      tag == Slice(encryptedMasterKey, 12, 28)
      ciphertext == Slice(encryptedMasterKey, 28, Len(encryptedMasterKey))
  IN  IF ~ (IsWhole(iv, "iv") /\ IsWhole(tag, "tag") /\ IsWhole(ciphertext, "ciphertext"))
      THEN NoMasterKey
      ELSE LET r == DecryptMasterKey(ValueOf(ciphertext), derivedKey, ValueOf(iv),
                                     ValueOf(tag))
           IN  IF r.ok THEN r.plaintext ELSE NoMasterKey

\* getMasterKey: slice the wrapped key, derive the key, unwrap; null on failure
GetMasterKey(credentials, passphrase) ==
  IF credentials.encryptedMasterKey = NoBlob \/ credentials.salt = NoSalt
  THEN NoMasterKey
  ELSE Unwrap(FromBase64(credentials.encryptedMasterKey),
              DeriveKeyFromPassphrase(passphrase, FromBase64(credentials.salt)))

\* unlock with the recovery key in place of the passphrase: the derived key is
\* deriveKeyFromRecoveryKey's
RecoverMasterKey(encryptedMasterKey, salt, recoveryKey) ==
  IF recoveryKey = NoRecoveryKey \/ encryptedMasterKey = NoBlob \/ salt = NoSalt
  THEN NoMasterKey
  ELSE Unwrap(FromBase64(encryptedMasterKey),
              DeriveKeyFromRecoveryKey(recoveryKey, FromBase64(salt)))

\* no apiRequest call has been made
NoCall == [pc |-> "idle", kind |-> "", ok |-> FALSE, status |-> 0]

\* the tokens POST /auth/otp/verify issues to a device
AccessToken(d) == "at:" \o d
RefreshToken(d) == "rt:" \o d

\* apiRequest: a message of the CLI to the server: the bearer token, the text
\* fields of path and body as (field, value) pairs, the base64 fields of the
\* body, and the other data: the body of a push, the hash of a version's path
Msg(kind, token, text, encoded, data) ==
  [kind |-> kind, token |-> token, text |-> text, encoded |-> encoded, data |-> data]

SkillKeyText(skillKey) == {<<"skillType", skillKey[1]>>, <<"skillName", skillKey[2]>>}

PushMessage(token, req) ==
  Msg("pushSkillVersion", token, SkillKeyText(req.skillKey), <<>>, <<req.body>>)

(***************************************************************************)
(* State.                                                                  *)
(***************************************************************************)
VARIABLES
  skills,         \* server table skills: rows [id, skillKey, currentHash, updatedAt]
  skillVersions,  \* server table skill_versions
  clock,          \* the server's time; every write stamps and advances it
  nextId,         \* source of fresh skill ids (uuid defaultRandom)
  reqs,           \* POST /skills/:skillKey/versions handlers in flight
  lastResp,       \* the response of the handler that returned last
  nPush,          \* number of push requests started
  created,        \* history: for each stored version, the pointer when it was inserted
  fs,             \* per device: the files and skill directories under ~/.claude
  index,          \* per device: the sync index file (sync-index.json)
  masterKey,      \* per device: the master key getMasterKey unwraps
  op,             \* per device: the pushSkills / pullSkills call in progress
  out,            \* the value a sync call returned in the last step, with its device
  pushedAll,      \* history: per device, the last push pushed every local skill
                  \* and the local content has not changed since
  wire,           \* the messages the CLI sent to the server in the last step
  account,        \* server table users: the account's salt and wrapped master key
  creds,          \* per device: the credentials file
  setup,          \* per device: the onboarding or login run in progress
  call            \* per device: the apiRequest call in progress, or its result

srvVars == <<skills, skillVersions, clock, nextId>>
reqVars == <<reqs, lastResp, nPush>>
keyVars == <<account, creds, setup, call>>
cliVars == <<fs, index, masterKey, op, out, pushedAll, wire, account, creds, setup, call>>
vars == <<skills, skillVersions, clock, nextId, reqs, lastResp, nPush, created,
          fs, index, masterKey, op, out, pushedAll, wire, account, creds, setup, call>>

Srv == [skills |-> skills, versions |-> skillVersions, clock |-> clock, nextId |-> nextId]

SetSrv(S) ==
  /\ skills' = S.skills
  /\ skillVersions' = S.versions
  /\ clock' = S.clock
  /\ nextId' = S.nextId

(***************************************************************************)
(* Database queries (db/index.ts).                                         *)
(***************************************************************************)
NoSkill == [id |-> 0, skillKey |-> <<"", "">>, currentHash |-> NullHash, updatedAt |-> 0]

FindSkillByKey(S, skillKey) ==
  IF \E row \in S.skills : row.skillKey = skillKey
  THEN CHOOSE row \in S.skills : row.skillKey = skillKey
  ELSE NoSkill

\* insert into skills; idx_skills_user_skill rejects a second row for the key
CreateSkill(S, skillKey) ==
  LET row == [id |-> S.nextId, skillKey |-> skillKey,
              currentHash |-> NullHash, updatedAt |-> S.clock]
  IN  IF \E r \in S.skills : r.skillKey = skillKey
      THEN [ok |-> FALSE, S |-> S, row |-> NoSkill]
      ELSE [ok |-> TRUE,
            S |-> [S EXCEPT !.skills = @ \cup {row}, !.nextId = @ + 1, !.clock = @ + 1],
            row |-> row]

\* a variant that leaves a pointer that is already set where it is
UpdateSkillCurrentHashIfNull(S, skillId, hash) ==
  [S EXCEPT !.skills = {IF r.id = skillId /\ r.currentHash = NullHash
                        THEN [r EXCEPT !.currentHash = hash, !.updatedAt = S.clock]
                        ELSE r : r \in S.skills},
            !.clock = @ + 1]

UpdateSkillCurrentHash(S, skillId, hash) ==
  [S EXCEPT !.skills = {IF r.id = skillId
                        THEN [r EXCEPT !.currentHash = hash, !.updatedAt = S.clock]
                        ELSE r : r \in S.skills},
            !.clock = @ + 1]

\* a variant without the cascade: the versions of the deleted skill stay
DeleteSkillNoCascade(S, skillId) ==
  [S EXCEPT !.skills = {r \in @ : r.id # skillId}]

\* delete from skills; skill_versions rows go with it (onDelete cascade)
DeleteSkill(S, skillId) ==
  [S EXCEPT !.skills = {r \in @ : r.id # skillId},
            !.versions = {v \in @ : v.skillId # skillId}]

NoVersion == [hash |-> NullHash, parentHash |-> NullHash, createdAt |-> 0]

FindSkillVersion(S, skillId, hash) ==
  {v \in S.versions : v.skillId = skillId /\ v.hash = hash}

\* a plain insert, without the on-conflict clause: the primary key
\* (skill_id, hash) rejects the second row
CreateSkillVersionNoConflict(S, skillId, hash, encryptedData, iv, tag, parentHash, message) ==
  LET row == [skillId |-> skillId, hash |-> hash, encryptedData |-> encryptedData,
              iv |-> iv, tag |-> tag, parentHash |-> parentHash,
              message |-> message, createdAt |-> S.clock]
  IN  IF ~ \E r \in S.skills : r.id = skillId
      THEN [ok |-> FALSE, S |-> S, row |-> row]
      ELSE IF FindSkillVersion(S, skillId, hash) # {}
      THEN [ok |-> FALSE, S |-> S, row |-> row]
      ELSE [ok |-> TRUE,
            S |-> [S EXCEPT !.versions = @ \cup {row}, !.clock = @ + 1],
            row |-> row]

\* a variant whose conflict clause replaces the whole row
CreateSkillVersionReplaceRow(S, skillId, hash, encryptedData, iv, tag, parentHash, message) ==
  LET row == [skillId |-> skillId, hash |-> hash, encryptedData |-> encryptedData,
              iv |-> iv, tag |-> tag, parentHash |-> parentHash,
              message |-> message, createdAt |-> S.clock]
  IN  IF ~ \E r \in S.skills : r.id = skillId
      THEN [ok |-> FALSE, S |-> S, row |-> row]
      ELSE [ok |-> TRUE,
            S |-> [S EXCEPT !.versions = (@ \ FindSkillVersion(S, skillId, hash)) \cup {row},
                            !.clock = @ + 1],
            row |-> row]

\* a variant that refuses a version whose parentHash another version of the
\* skill already has
CreateSkillVersionRejectFork(S, skillId, hash, encryptedData, iv, tag, parentHash, message) ==
  LET row == [skillId |-> skillId, hash |-> hash, encryptedData |-> encryptedData,
              iv |-> iv, tag |-> tag, parentHash |-> parentHash,
              message |-> message, createdAt |-> S.clock]
  IN  IF \/ ~ \E r \in S.skills : r.id = skillId
         \/ \E v \in S.versions :
              v.skillId = skillId /\ v.parentHash = parentHash /\ v.hash # hash
      THEN [ok |-> FALSE, S |-> S, row |-> row]
      ELSE [ok |-> TRUE,
            S |-> [S EXCEPT !.versions = (@ \ FindSkillVersion(S, skillId, hash)) \cup {row},
                            !.clock = @ + 1],
            row |-> row]

\* insert ... on conflict (skill_id, hash) do update set encryptedData, iv, tag;
\* the foreign key skill_id -> skills.id rejects a version of a deleted skill
CreateSkillVersion(S, skillId, hash, encryptedData, iv, tag, parentHash, message) ==
  LET row == [skillId |-> skillId, hash |-> hash, encryptedData |-> encryptedData,
              iv |-> iv, tag |-> tag, parentHash |-> parentHash,
              message |-> message, createdAt |-> S.clock]
      old == FindSkillVersion(S, skillId, hash)
  IN  IF ~ \E r \in S.skills : r.id = skillId
      THEN [ok |-> FALSE, S |-> S, row |-> row]
      ELSE IF old # {}
      THEN LET o == CHOOSE v \in old : TRUE
               u == [o EXCEPT !.encryptedData = encryptedData, !.iv = iv, !.tag = tag]
           IN  [ok |-> TRUE,
                S |-> [S EXCEPT !.versions = (@ \ {o}) \cup {u}],
                row |-> u]
      ELSE [ok |-> TRUE,
            S |-> [S EXCEPT !.versions = @ \cup {row}, !.clock = @ + 1],
            row |-> row]

(***************************************************************************)
(* POST /skills/:skillKey/versions (routes/skills.ts), one action per      *)
(* database call of the handler; a handler in flight is an entry of reqs.  *)
(***************************************************************************)
\* c.json({skillId, hash, parentHash, createdAt}); repush is history: whether
\* createSkillVersion found the hash already stored for the skill
Response(status, skillId, version, repush) ==
  [status |-> status, skillId |-> skillId, hash |-> version.hash,
   parentHash |-> version.parentHash, createdAt |-> version.createdAt,
   repush |-> repush]

ErrorResponse(status) == Response(status, 0, NoVersion, FALSE)

VersionKeys(S) == {[skillId |-> v.skillId, hash |-> v.hash] : v \in S.versions}

\* the history of version insertions, across one database call from S to T
Created(S, T) ==
  {e \in created : [skillId |-> e.skillId, hash |-> e.hash] \in VersionKeys(T)}
  \cup {[skillId |-> k.skillId, hash |-> k.hash,
         pointer |-> (CHOOSE r \in S.skills : r.id = k.skillId).currentHash]
        : k \in VersionKeys(T) \ VersionKeys(S)}

Drop(r) == [q \in DOMAIN reqs \ {r} |-> reqs[q]]

ValidBody(body) == body.hash # NullHash

PushFind(r, skillKey, body) ==
  /\ r \notin DOMAIN reqs
  /\ UNCHANGED <<srvVars, created, cliVars>>
  /\ IF ~ ValidBody(body)
     THEN /\ lastResp' = ErrorResponse(400)
          /\ UNCHANGED <<reqs, nPush>>
     ELSE LET skill == FindSkillByKey(Srv, skillKey)
          IN  /\ nPush < MaxPushes
              /\ nPush' = nPush + 1
              /\ reqs' = reqs @@ (r :> [pc |-> IF skill = NoSkill THEN "create" ELSE "version",
                                        skillKey |-> skillKey, body |-> body,
                                        skill |-> skill, version |-> NoVersion,
                                        repush |-> FALSE])
              /\ UNCHANGED lastResp

PushCreateSkill(r) ==
  /\ r \in DOMAIN reqs
  /\ reqs[r].pc = "create"
  /\ LET res == CreateSkill(Srv, reqs[r].skillKey)
     IN  IF res.ok
         THEN /\ SetSrv(res.S)
              /\ reqs' = [reqs EXCEPT ![r].pc = "version", ![r].skill = res.row]
              /\ UNCHANGED lastResp
         ELSE /\ UNCHANGED srvVars
              /\ reqs' = Drop(r)
              /\ lastResp' = ErrorResponse(500)
  /\ UNCHANGED <<nPush, created, cliVars>>

PushCreateVersion(r) ==
  /\ r \in DOMAIN reqs
  /\ reqs[r].pc = "version"
  /\ LET q == reqs[r]
         \* parentHash = skill.currentHash, as read when the skill was found
         res == CreateSkillVersion(Srv, q.skill.id, q.body.hash, q.body.encryptedData,
                                   q.body.iv, q.body.tag, q.skill.currentHash,
                                   q.body.message)
         stored == FindSkillVersion(Srv, q.skill.id, q.body.hash) # {}
     IN  IF res.ok
         THEN /\ SetSrv(res.S)
              /\ created' = Created(Srv, res.S)
              /\ reqs' = [reqs EXCEPT ![r].pc = "pointer",
                                      ![r].version = [hash |-> res.row.hash,
                                                      parentHash |-> res.row.parentHash,
                                                      createdAt |-> res.row.createdAt],
                                      ![r].repush = stored]
              /\ UNCHANGED lastResp
         ELSE /\ UNCHANGED <<srvVars, created>>
              /\ reqs' = Drop(r)
              /\ lastResp' = Response(500, q.skill.id, NoVersion, stored)
  /\ UNCHANGED <<nPush, cliVars>>

PushUpdatePointer(r) ==
  /\ r \in DOMAIN reqs
  /\ reqs[r].pc = "pointer"
  /\ SetSrv(UpdateSkillCurrentHash(Srv, reqs[r].skill.id, reqs[r].body.hash))
  /\ lastResp' = Response(200, reqs[r].skill.id, reqs[r].version, reqs[r].repush)
  /\ reqs' = Drop(r)
  /\ UNCHANGED <<nPush, created, cliVars>>

\* The server process stops: every handler in flight is lost where it stands.
ServerStop ==
  /\ DOMAIN reqs # {}
  /\ reqs' = << >>
  /\ UNCHANGED <<srvVars, lastResp, nPush, created, cliVars>>

\* DELETE /skills/:skillKey
DeleteSkillHandler(skillKey) ==
  /\ LET skill == FindSkillByKey(Srv, skillKey)
     IN  IF skill = NoSkill
         THEN /\ lastResp' = ErrorResponse(404)
              /\ UNCHANGED <<srvVars, created>>
         ELSE /\ lastResp' = Response(200, skill.id, NoVersion, FALSE)
              /\ SetSrv(DeleteSkill(Srv, skill.id))
              /\ created' = Created(Srv, DeleteSkill(Srv, skill.id))
  /\ UNCHANGED <<reqs, nPush, cliVars>>

(***************************************************************************)
(* The local skill tree (core/skills.ts).  A device's tree holds plain     *)
(* files [path, content] and skill directories [base, entries], entries in *)
(* the order readdir returns them.  Names are compared exactly; upper and  *)
(* lower case variants of one name are not modelled.                       *)
(***************************************************************************)
Devices == {"d1", "d2"}

\* the device whose sync commands are followed step by step; what the other
\* devices push arrives as RemotePush
SyncDevices == {"d1"}

\* extensions, in the order readdir returns entries that share a base name
ExtOrder == <<".md", ".txt">>

EmptyFs == [files |-> {}, dirs |-> {}]

Path(dir, base, ext) == [dir |-> dir, base |-> base, ext |-> ext]

MainName == [base |-> "SKILL", ext |-> ".md"]

\* getSkillTypeDir / SKILL_DIRS
GetSkillTypeDir(type) ==
  CASE type = "command" -> "commands"
    [] type = "skill" -> "skills"
    [] type = "agent" -> "agents"

\* writeFile(path, content)
WriteFile(tree, path, content) ==
  [tree EXCEPT !.files = {f \in @ : f.path # path}
                           \cup {[path |-> path, content |-> content]}]

\* mkdir(skillDir, {recursive: true})
Mkdir(tree, base) ==
  IF \E dir \in tree.dirs : dir.base = base
  THEN tree
  ELSE [tree EXCEPT !.dirs = @ \cup {[base |-> base, entries |-> <<>>]}]

\* writeFile into an existing skill directory: an existing entry keeps its
\* place, a new entry is added at the end
WriteEntry(tree, base, name, content) ==
  LET dir == CHOOSE x \in tree.dirs : x.base = base
      e == [name |-> name, content |-> content]
      entries == IF \E i \in 1..Len(dir.entries) : dir.entries[i].name = name
                 THEN [i \in 1..Len(dir.entries) |->
                         IF dir.entries[i].name = name THEN e ELSE dir.entries[i]]
                 ELSE Append(dir.entries, e)
  IN  [tree EXCEPT !.dirs = (@ \ {dir}) \cup {[base |-> base, entries |-> entries]}]

RECURSIVE WriteEntries(_, _, _)
WriteEntries(tree, base, list) ==
  IF list = <<>> THEN tree
  ELSE WriteEntries(WriteEntry(tree, base, Head(list).name, Head(list).content),
                    base, Tail(list))

\* readSkill: the name is the file's base name without its extension
ReadSkill(tree, path, type) ==
  [name |-> path.base,
   type |-> type,
   content |-> (CHOOSE f \in tree.files : f.path = path).content,
   files |-> NoFiles,
   path |-> path]

\* listSkills: the .md, .txt and extension-less files of a directory, by name
ListSkills(tree, dirName, type) ==
  LET n == Len(ExtOrder)
      all == [k \in 1..(Len(NameOrder) * n) |->
                Path(dirName, NameOrder[((k - 1) \div n) + 1], ExtOrder[((k - 1) % n) + 1])]
      isSkillFile(path) == /\ \E f \in tree.files : f.path = path
                           /\ path.ext \in {".md", ".txt", ""}
      found == SelectSeq(all, isSkillFile)
  IN  [k \in 1..Len(found) |-> ReadSkill(tree, found[k], type)]

\* the main file of a skill directory: SKILL.md, <name>.md or index.md
IsMainFile(name, dirBase) ==
  name \in {MainName, [base |-> dirBase, ext |-> ".md"], [base |-> "index", ext |-> ".md"]}

\* readDirectorySkill, for a directory that has a main file
ReadDirectorySkill(dir, type) ==
  LET isMain(e) == IsMainFile(e.name, dir.base)
      mainFile == SelectSeq(dir.entries, isMain)[1]
      notMain(e) == e.name # mainFile.name
      supportingFiles == SelectSeq(dir.entries, notMain)
  IN  [name |-> dir.base,
       type |-> type,
       content |-> mainFile.content,
       files |-> IF Len(supportingFiles) > 0 THEN SomeFiles(supportingFiles) ELSE NoFiles,
       path |-> Path("skills", dir.base, "")]

\* listDirectorySkills: the sub-directories that have a main file, by name;
\* plain files of the directory are not skills
ListDirectorySkills(tree, type) ==
  LET hasMain(base) ==
        \E dir \in tree.dirs :
          /\ dir.base = base
          /\ \E i \in 1..Len(dir.entries) : IsMainFile(dir.entries[i].name, base)
      found == SelectSeq(NameOrder, hasMain)
  IN  [k \in 1..Len(found) |->
         ReadDirectorySkill(CHOOSE dir \in tree.dirs : dir.base = found[k], type)]

\* listAllSkills: commands, skills, agents, sorted by type and then by name
ListAllSkills(tree) ==
  ListSkills(tree, "commands", "command")
    \o ListDirectorySkills(tree, "skill")
    \o ListSkills(tree, "agents", "agent")

(***************************************************************************)
(* The sync index (sync.ts).                                               *)
(***************************************************************************)
\* lastSyncAt: 0 while the index was never saved, 1 afterwards
EmptyIndex == [skills |-> << >>, lastSyncAt |-> 0]

\* hashContent(content + JSON.stringify(files ?? [])): the change-detection
\* hash of body and supporting files
HashContent(content, files) ==
  IdxOf(ContentOrder, content)
    + Len(ContentOrder) * FilesCode(IF files.defined THEN files.list ELSE <<>>)

IndexEntry(hash, localHash, remoteUpdatedAt) ==
  [hash |-> hash, blobId |-> "null", localHash |-> localHash,
   remoteUpdatedAt |-> remoteUpdatedAt]

NoKey == <<"", "">>

\* the result of one skill of a batch
Result(type, skillKey, hash, localHash, remoteUpdatedAt) ==
  [type |-> type, skillKey |-> skillKey, hash |-> hash, localHash |-> localHash,
   remoteUpdatedAt |-> remoteUpdatedAt]

Pending == Result("pending", NoKey, NullHash, 0, 0)
Skipped == Result("skipped", NoKey, NullHash, 0, 0)
Failed == Result("error", NoKey, NullHash, 0, 0)

\* results.filter(success).reduce(acc[result.skillKey] = {...}, index.skills)
RECURSIVE ReduceResults(_, _)
ReduceResults(acc, results) ==
  IF results = <<>> THEN acc
  ELSE LET r == Head(results)
           next == IF r.type = "success"
                   THEN (r.skillKey :> IndexEntry(r.hash, r.localHash, r.remoteUpdatedAt)) @@ acc
                   ELSE acc
       IN  ReduceResults(next, Tail(results))

CountOf(results, type) ==
  LET is(r) == r.type = type IN Len(SelectSeq(results, is))

\* a variant that takes any index entry of the key as a match
IndexHasKey(idx, skillKey, hash) ==
  skillKey \in DOMAIN idx.skills

\* existing?.hash === hash
IndexHas(idx, skillKey, hash) ==
  skillKey \in DOMAIN idx.skills /\ idx.skills[skillKey].hash = hash

(***************************************************************************)
(* Server reads (routes/skills.ts).                                        *)
(***************************************************************************)
\* listUserSkills: the account's skills, most recently updated first
RECURSIVE ListUserSkills(_)
ListUserSkills(rows) ==
  IF rows = {} THEN <<>>
  ELSE LET m == CHOOSE r \in rows : \A q \in rows : q.updatedAt <= r.updatedAt
       IN  <<[skillKey |-> m.skillKey, currentHash |-> m.currentHash,
              updatedAt |-> m.updatedAt]>> \o ListUserSkills(rows \ {m})

\* GET /skills/:skillKey: the current version, 404 without skill, pointer or version
GetSkillHandler(S, skillKey) ==
  LET skill == FindSkillByKey(S, skillKey)
      version == FindSkillVersion(S, skill.id, skill.currentHash)
  IN  IF skill = NoSkill \/ skill.currentHash = NullHash \/ version = {}
      THEN [ok |-> FALSE, version |-> {}]
      ELSE [ok |-> TRUE, version |-> version]

\* POST /skills/:skillKey/versions handled without interleaving: find or
\* create the skill, record the version under the pointer, move the pointer
PostSkillVersion(S, skillKey, body) ==
  LET found == FindSkillByKey(S, skillKey)
      c == IF found = NoSkill THEN CreateSkill(S, skillKey)
           ELSE [ok |-> TRUE, S |-> S, row |-> found]
      v == CreateSkillVersion(c.S, c.row.id, body.hash, body.encryptedData, body.iv,
                              body.tag, c.row.currentHash, body.message)
      T == UpdateSkillCurrentHash(v.S, c.row.id, body.hash)
  IN  [S |-> T,
       inserted |-> v.S,
       before |-> c.S,
       response |-> Response(200, c.row.id, v.row,
                             FindSkillVersion(c.S, c.row.id, body.hash) # {})]

(***************************************************************************)
(* The sync commands of the CLI (sync.ts).  A pushSkills or pullSkills     *)
(* call is a batch: it lists, starts the work on every skill at once       *)
(* (Promise.all), the requests complete one by one in any order, and the   *)
(* index is saved when all of them have completed.                         *)
(***************************************************************************)
IdleOp ==
  [kind |-> "idle", skills |-> <<>>, loaded |-> EmptyIndex, remote |-> <<>>,
   reqs |-> << >>, results |-> <<>>, afterFull |-> FALSE]

\* the value a sync call returns; dev is the device that ran it, and remoteOk
\* is history: whether the call's request for the remote list succeeded
Out(cmd, count, errors, local, synced, pendingPush, pendingPull) ==
  [dev |-> "", remoteOk |-> FALSE, cmd |-> cmd, count |-> count, errors |-> errors,
   local |-> local, synced |-> synced, pendingPush |-> pendingPush,
   pendingPull |-> pendingPull]

NoOut == Out("none", 0, 0, 0, 0, 0, 0)

\* a variant that takes every remote entry with a current hash as pending pull
GetSyncStatusAllRemote(listing, idx, listResult) ==
  LET isSynced(skill) == IndexHas(idx, GetSkillKey(skill), ComputeSkillHash(skill))
      synced == Len(SelectSeq(listing, isSynced))
      isPendingPull(s) == s.currentHash # NullHash
  IN  Out("status", 0, 0, Len(listing), synced, Len(listing) - synced,
          IF listResult.ok THEN Len(SelectSeq(listResult.skills, isPendingPull)) ELSE 0)

\* getSyncStatus
GetSyncStatus(listing, idx, listResult) ==
  LET isSynced(skill) == IndexHas(idx, GetSkillKey(skill), ComputeSkillHash(skill))
      isPending(skill) == ~ isSynced(skill)
      localSkillKeys == {GetSkillKey(listing[i]) : i \in 1..Len(listing)}
      isPendingPull(s) == s.currentHash # NullHash /\ s.skillKey \notin localSkillKeys
  IN  Out("status", 0, 0, Len(listing),
          Len(SelectSeq(listing, isSynced)),
          Len(SelectSeq(listing, isPending)),
          IF listResult.ok THEN Len(SelectSeq(listResult.skills, isPendingPull)) ELSE 0)

\* api.listSkills: the list the server returns, or a failed request
ListResult(ok) ==
  [ok |-> ok, skills |-> IF ok THEN ListUserSkills(skills) ELSE <<>>]

\* The user saves a command or agent file.
UserWriteFile(d, path, content) ==
  /\ wire' = {}
  /\ UNCHANGED keyVars
  /\ op[d].kind = "idle"
  /\ fs' = [fs EXCEPT ![d] = WriteFile(@, path, content)]
  /\ pushedAll' = [pushedAll EXCEPT ![d] = FALSE]
  /\ out' = NoOut
  /\ UNCHANGED <<srvVars, reqVars, created, index, masterKey, op>>

\* the positions, in the listing, of the skills a push would send
ToPush(d) ==
  LET listing == ListAllSkills(fs[d])
  IN  {i \in 1..Len(listing) :
         ~ IndexHas(index[d], GetSkillKey(listing[i]), ComputeSkillHash(listing[i]))}

\* pushSkills up to the first await of every skill: list, load the index,
\* skip the skills whose hash the index holds, encrypt and send the others
PushBegin(d, message, ivs) ==
  /\ op[d].kind = "idle"
  /\ UNCHANGED keyVars
  /\ LET listing == ListAllSkills(fs[d])
         idx == index[d]
         send == ToPush(d)
     IN  /\ DOMAIN ivs = send
         /\ op' = [op EXCEPT ![d] =
                     [kind |-> "push", skills |-> listing, loaded |-> idx,
                      remote |-> <<>>,
                      reqs |-> [i \in send |->
                                  PushRequest(listing[i], masterKey[d], ivs[i], message)],
                      results |-> [i \in 1..Len(listing) |->
                                     IF i \in send THEN Pending ELSE Skipped],
                      afterFull |-> pushedAll[d]]]
         /\ wire' = {PushMessage(creds[d].accessToken,
                                 PushRequest(listing[i], masterKey[d], ivs[i], message))
                      : i \in send}
  /\ out' = NoOut
  /\ UNCHANGED <<srvVars, reqVars, created, fs, index, masterKey, pushedAll>>

\* One push request reaches the server and is handled; the response reaches
\* the CLI (delivered) or is lost on the way.
PushServe(d, i, delivered) ==
  /\ wire' = {}
  /\ UNCHANGED keyVars
  /\ op[d].kind = "push"
  /\ i \in DOMAIN op[d].reqs
  /\ op[d].results[i] = Pending
  /\ clock < MaxClock
  /\ LET req == op[d].reqs[i]
         skill == op[d].skills[i]
         h == PostSkillVersion(Srv, req.skillKey, req.body)
     IN  /\ SetSrv(h.S)
         /\ created' = Created(h.before, h.inserted)
         /\ op' = [op EXCEPT ![d].results[i] =
                     IF delivered
                     THEN Result("success", req.skillKey, req.body.hash,
                                 HashContent(skill.content, skill.files),
                                 h.response.createdAt)
                     ELSE Failed]
  /\ out' = NoOut
  /\ UNCHANGED <<reqVars, fs, index, masterKey, pushedAll>>

\* One push request fails before it reaches the server.
PushLost(d, i) ==
  /\ wire' = {}
  /\ UNCHANGED keyVars
  /\ op[d].kind = "push"
  /\ i \in DOMAIN op[d].reqs
  /\ op[d].results[i] = Pending
  /\ op' = [op EXCEPT ![d].results[i] = Failed]
  /\ out' = NoOut
  /\ UNCHANGED <<srvVars, reqVars, created, fs, index, masterKey, pushedAll>>

\* Another device of the account, whose index does not hold the skill, pushes
\* it: the same request, handled by the server.
RemotePush(skill, key, iv, message) ==
  /\ clock < MaxClock
  /\ UNCHANGED keyVars
  /\ wire' = {PushMessage(AccessToken("other"), PushRequest(skill, key, iv, message))}
  /\ LET req == PushRequest(skill, key, iv, message)
         h == PostSkillVersion(Srv, req.skillKey, req.body)
     IN  /\ SetSrv(h.S)
         /\ created' = Created(h.before, h.inserted)
  /\ out' = NoOut
  /\ UNCHANGED <<reqVars, fs, index, masterKey, op, pushedAll>>

\* Another client of the account posts a version whose envelope was altered
\* after encryption: the same request with another body, handled by the server.
RemotePost(req) ==
  /\ clock < MaxClock
  /\ UNCHANGED keyVars
  /\ wire' = {PushMessage(AccessToken("other"), req)}
  /\ LET h == PostSkillVersion(Srv, req.skillKey, req.body)
     IN  /\ SetSrv(h.S)
         /\ created' = Created(h.before, h.inserted)
  /\ out' = NoOut
  /\ UNCHANGED <<reqVars, fs, index, masterKey, op, pushedAll>>

\* pushSkills after Promise.all: fold the successes into the index, save it
PushEnd(d) ==
  /\ wire' = {}
  /\ UNCHANGED keyVars
  /\ op[d].kind = "push"
  /\ \A i \in 1..Len(op[d].results) : op[d].results[i] # Pending
  /\ index' = [index EXCEPT ![d] =
                 [skills |-> ReduceResults(op[d].loaded.skills, op[d].results),
                  lastSyncAt |-> 1]]
  /\ out' = [Out("push", CountOf(op[d].results, "success"),
                  CountOf(op[d].results, "error"), 0, 0, 0, 0) EXCEPT !.dev = d]
  /\ pushedAll' = [pushedAll EXCEPT ![d] =
                     /\ op[d].results # <<>>
                     /\ \A i \in 1..Len(op[d].results) : op[d].results[i].type = "success"]
  /\ op' = [op EXCEPT ![d] = IdleOp]
  /\ UNCHANGED <<srvVars, reqVars, created, fs, masterKey>>

\* The CLI process is killed during pushSkills.  Before saveSyncIndex the
\* index file is as it was; a kill inside saveSyncIndex's writeFile, which
\* truncates the file and writes it in place, leaves a file that loadSyncIndex
\* cannot parse and reads as the empty index.
Kill(d, inSave) ==
  /\ op[d].kind = "push"
  /\ UNCHANGED keyVars
  /\ wire' = {}
  /\ inSave => \A i \in 1..Len(op[d].results) : op[d].results[i] # Pending
  /\ index' = IF inSave THEN [index EXCEPT ![d] = EmptyIndex] ELSE index
  /\ out' = [Out("killed", 0, 0, 0, 0, 0, 0) EXCEPT !.dev = d]
  /\ pushedAll' = [pushedAll EXCEPT ![d] = FALSE]
  /\ op' = [op EXCEPT ![d] = IdleOp]
  /\ UNCHANGED <<srvVars, reqVars, created, fs, masterKey>>

\* pullSkills up to the first await of every remote skill: load the index,
\* list the remote skills, skip those the index holds and those without version
PullBegin(d, listOk) ==
  /\ op[d].kind = "idle"
  /\ UNCHANGED keyVars
  /\ wire' = {Msg("listSkills", creds[d].accessToken, {}, <<>>, <<>>)}
  /\ pushedAll' = [pushedAll EXCEPT ![d] = FALSE]
  /\ LET idx == index[d]
         listResult == ListResult(listOk)
         remote == listResult.skills
     IN  IF ~ listResult.ok
         THEN /\ out' = [Out("pull", 0, 1, 0, 0, 0, 0) EXCEPT !.dev = d]
              /\ UNCHANGED op
         ELSE /\ out' = NoOut
              /\ op' = [op EXCEPT ![d] =
                          [kind |-> "pull", skills |-> <<>>, loaded |-> idx,
                           remote |-> remote, reqs |-> << >>,
                           results |-> [i \in 1..Len(remote) |->
                                          IF \/ IndexHas(idx, remote[i].skillKey,
                                                         remote[i].currentHash)
                                             \/ remote[i].currentHash = NullHash
                                          THEN Skipped ELSE Pending],
                           afterFull |-> FALSE]]
  /\ UNCHANGED <<srvVars, reqVars, created, fs, index, masterKey>>

\* the files pullSkills writes for one decrypted skill
WriteSkill(tree, decrypted) ==
  IF decrypted.type = "skill" /\ decrypted.files.defined
  THEN WriteEntries(WriteEntry(Mkdir(tree, decrypted.name), decrypted.name,
                               MainName, decrypted.content),
                    decrypted.name, decrypted.files.list)
  ELSE WriteFile(tree, Path(GetSkillTypeDir(decrypted.type), decrypted.name, ".md"),
                 decrypted.content)

\* pullSkills for one remote skill: download the current version, decrypt it,
\* write it; the request may fail (netOk = FALSE)
PullFetch(d, i, netOk) ==
  /\ op[d].kind = "pull"
  /\ UNCHANGED keyVars
  /\ i \in 1..Len(op[d].results)
  /\ op[d].results[i] = Pending
  /\ wire' = {Msg("getSkill", creds[d].accessToken,
                  SkillKeyText(op[d].remote[i].skillKey), <<>>, <<>>)}
  /\ LET remoteSkill == op[d].remote[i]
         skillResult == GetSkillHandler(Srv, remoteSkill.skillKey)
     IN  IF ~ netOk \/ ~ skillResult.ok
         THEN /\ op' = [op EXCEPT ![d].results[i] = Failed]
              /\ UNCHANGED fs
         ELSE LET v == CHOOSE x \in skillResult.version : TRUE
                  dec == DecryptSkill(v.encryptedData, v.iv, v.tag, masterKey[d])
              IN  IF ~ dec.ok
                  THEN /\ op' = [op EXCEPT ![d].results[i] = Failed]
                       /\ UNCHANGED fs
                  ELSE /\ fs' = [fs EXCEPT ![d] = WriteSkill(@, dec.plaintext)]
                       /\ op' = [op EXCEPT ![d].results[i] =
                                   Result("success", remoteSkill.skillKey,
                                          remoteSkill.currentHash,
                                          HashContent(dec.plaintext.content,
                                                      dec.plaintext.files),
                                          remoteSkill.updatedAt)]
  /\ out' = NoOut
  /\ UNCHANGED <<srvVars, reqVars, created, index, masterKey, pushedAll>>

\* pullSkills after Promise.all: fold the successes into the index, save it
PullEnd(d) ==
  /\ wire' = {}
  /\ UNCHANGED keyVars
  /\ op[d].kind = "pull"
  /\ \A i \in 1..Len(op[d].results) : op[d].results[i] # Pending
  /\ index' = [index EXCEPT ![d] =
                 [skills |-> ReduceResults(op[d].loaded.skills, op[d].results),
                  lastSyncAt |-> 1]]
  /\ out' = [Out("pull", CountOf(op[d].results, "success"),
                  CountOf(op[d].results, "error"), 0, 0, 0, 0) EXCEPT !.dev = d]
  /\ op' = [op EXCEPT ![d] = IdleOp]
  /\ UNCHANGED <<srvVars, reqVars, created, fs, masterKey, pushedAll>>

\* getSyncStatus, as the status command runs it
Status(d, listOk) ==
  /\ op[d].kind = "idle"
  /\ UNCHANGED keyVars
  /\ wire' = {Msg("listSkills", creds[d].accessToken, {}, <<>>, <<>>)}
  /\ out' = [GetSyncStatus(ListAllSkills(fs[d]), index[d], ListResult(listOk))
               EXCEPT !.dev = d, !.remoteOk = listOk]
  /\ UNCHANGED <<srvVars, reqVars, created, fs, index, masterKey, op, pushedAll>>

(***************************************************************************)
(* First-time setup and login (onboarding.ts, commands/login.ts), the      *)
(* account routes of the server, and checkout.                             *)
(***************************************************************************)
\* a run of setup or login: where it is, the salt it fetched, and, of a new
\* user's run, the passphrase entered, the master key and the recovery key
\* generated, and the recovery key as displayed
NoSetup ==
  [pc |-> "idle", flow |-> "", salt |-> NoSalt, passphrase |-> "",
   generated |-> NoMasterKey, recoveryKey |-> NoRecoveryKey, shown |-> <<>>]

syncVars == <<fs, index, op, out, pushedAll, call>>

\* api.requestOtp(email)
RequestOtp(d, flow) ==
  /\ setup[d].pc = "idle"
  /\ op[d].kind = "idle"
  /\ setup' = [setup EXCEPT ![d] = [NoSetup EXCEPT !.pc = "otp", !.flow = flow]]
  /\ wire' = {Msg("requestOtp", "", {<<"email", Email>>}, <<>>, <<>>)}
  /\ UNCHANGED <<srvVars, reqVars, created, syncVars, masterKey, account, creds>>

\* api.verifyOtp(email, code); the server answers isNewUser = !user.salt
VerifyOtp(d) ==
  /\ setup[d].pc = "otp"
  /\ setup' = [setup EXCEPT ![d].pc = IF account.salt = NoSalt THEN "new" ELSE "existing"]
  /\ wire' = {Msg("verifyOtp", "", {<<"email", Email>>, <<"code", OtpCode>>}, <<>>, <<>>)}
  /\ UNCHANGED <<srvVars, reqVars, created, syncVars, masterKey, account, creds>>

\* new user: generate salt, master key and recovery key, derive the key from
\* the passphrase, wrap the master key, save the credentials
CreateKeys(d, passphrase, salt, newMasterKey, recoveryKey, iv) ==
  /\ setup[d].pc = "new"
  /\ LET derivedKey == DeriveKeyFromPassphrase(passphrase, salt)
         encryptedMasterKeyFull == WrapMasterKey(newMasterKey, derivedKey, iv)
     IN  creds' = [creds EXCEPT ![d] =
                     Credentials(AccessToken(d), RefreshToken(d),
                                 ToBase64(encryptedMasterKeyFull), ToBase64(salt))]
  /\ setup' = [setup EXCEPT ![d].pc = "salt", ![d].passphrase = passphrase,
                             ![d].generated = newMasterKey,
                             ![d].recoveryKey = recoveryKey]
  /\ wire' = {}
  /\ UNCHANGED <<srvVars, reqVars, created, syncVars, masterKey, account>>

\* api.setSalt; PUT /account/salt reads the user and answers 409 when it has
\* a salt, and the run ends there; else the handler goes on to the update
UploadSalt(d) ==
  /\ setup[d].pc = "salt"
  /\ wire' = {Msg("setSalt", creds[d].accessToken, {}, <<creds[d].salt>>, <<>>)}
  /\ setup' = IF account.salt # NoSalt
              THEN [setup EXCEPT ![d] = NoSetup]
              ELSE [setup EXCEPT ![d].pc = "saltUpdate"]
  /\ UNCHANGED <<srvVars, reqVars, created, syncVars, masterKey, account, creds>>

\* PUT /account/salt, after the check: updateUserSalt sets the salt of the
\* user's row, and the request is answered
StoreSalt(d) ==
  /\ setup[d].pc = "saltUpdate"
  /\ account' = [account EXCEPT !.salt = creds[d].salt]
  /\ setup' = [setup EXCEPT ![d].pc = "key"]
  /\ wire' = {}
  /\ UNCHANGED <<srvVars, reqVars, created, syncVars, masterKey, creds>>

\* api.setMasterKey; PUT /account/master-key stores the wrapped key; the
\* recovery key is shown and the run ends
UploadMasterKey(d) ==
  /\ setup[d].pc = "key"
  /\ wire' = {Msg("setMasterKey", creds[d].accessToken, {},
                  <<creds[d].encryptedMasterKey>>, <<>>)}
  /\ account' = [account EXCEPT !.encryptedMasterKey = creds[d].encryptedMasterKey]
  /\ setup' = [setup EXCEPT ![d].pc = "idle",
                             ![d].shown = FormatRecoveryKey(setup[d].recoveryKey)]
  /\ UNCHANGED <<srvVars, reqVars, created, syncVars, masterKey, creds>>

\* existing user: api.getSalt.  Onboarding first saves the new tokens with an
\* empty wrapped key and salt; login sends the request with the token of the
\* credentials file, and without one the request is refused and the run ends
FetchSalt(d) ==
  /\ setup[d].pc = "existing"
  /\ creds' = IF setup[d].flow = "onboarding"
              THEN [creds EXCEPT ![d] =
                      Credentials(AccessToken(d), RefreshToken(d), NoBlob, NoSalt)]
              ELSE creds
  /\ wire' = {Msg("getSalt", creds'[d].accessToken, {}, <<>>, <<>>)}
  /\ setup' = IF creds'[d].accessToken = ""
              THEN [setup EXCEPT ![d] = NoSetup]
              ELSE [setup EXCEPT ![d].pc = "unlock", ![d].salt = account.salt]
  /\ UNCHANGED <<srvVars, reqVars, created, syncVars, masterKey, account>>

\* existing user: api.getMasterKey; the wrapped key of the server is taken,
\* else the local one, which login then uploads; save the credentials
FetchMasterKey(d) ==
  /\ setup[d].pc = "unlock"
  /\ LET existing == creds[d].encryptedMasterKey
         remote == account.encryptedMasterKey
         upload == remote = NoBlob /\ existing # NoBlob /\ setup[d].flow = "login"
         encryptedMasterKey == IF remote # NoBlob THEN remote ELSE existing
     IN  /\ wire' = {Msg("getMasterKey", creds[d].accessToken, {}, <<>>, <<>>)}
                       \cup IF upload
                            THEN {Msg("setMasterKey", creds[d].accessToken, {},
                                      <<existing>>, <<>>)}
                            ELSE {}
         /\ account' = IF upload THEN [account EXCEPT !.encryptedMasterKey = existing]
                       ELSE account
         /\ creds' = [creds EXCEPT ![d] =
                         Credentials(AccessToken(d), RefreshToken(d),
                                     encryptedMasterKey, setup[d].salt)]
  /\ setup' = [setup EXCEPT ![d] = NoSetup]
  /\ UNCHANGED <<srvVars, reqVars, created, syncVars, masterKey>>

\* refreshAccessToken: a request was answered 401; the refresh token is sent
\* and the new access token saved
Refresh(d) ==
  /\ creds[d].refreshToken # ""
  /\ wire' = {Msg("refresh", "", {<<"refreshToken", creds[d].refreshToken>>}, <<>>, <<>>)}
  /\ creds' = [creds EXCEPT ![d].accessToken = AccessToken(d)]
  /\ out' = NoOut
  /\ UNCHANGED <<srvVars, reqVars, created, fs, index, op, pushedAll, masterKey,
                 account, setup, call>>

\* apiRequest up to its fetch: load the credentials, send the request with
\* the stored access token
ApiRequest(d, kind) ==
  /\ call[d].pc \in {"idle", "done"}
  /\ call' = [call EXCEPT ![d] = [pc |-> "fetch", kind |-> kind, ok |-> FALSE, status |-> 0]]
  /\ wire' = {Msg(kind, creds[d].accessToken, {}, <<>>, <<>>)}
  /\ UNCHANGED <<srvVars, reqVars, created, fs, index, op, out, pushedAll, masterKey,
                 account, creds, setup>>

\* apiRequest after its fetch: the fetch or the parsing of the body threw, or
\* the server answered with a status; a 401 with a stored refresh token goes
\* on to refreshAccessToken, every other answer is returned
ApiResponse(d, status, thrown) ==
  /\ call[d].pc = "fetch"
  /\ IF thrown
     THEN /\ call' = [call EXCEPT ![d].pc = "done", ![d].ok = FALSE, ![d].status = 0]
          /\ wire' = {}
     ELSE IF status = 200
     THEN /\ call' = [call EXCEPT ![d].pc = "done", ![d].ok = TRUE, ![d].status = 200]
          /\ wire' = {}
     ELSE IF status = 401 /\ creds[d].refreshToken # ""
     THEN /\ call' = [call EXCEPT ![d].pc = "refresh"]
          /\ wire' = {Msg("refresh", "", {<<"refreshToken", creds[d].refreshToken>>},
                          <<>>, <<>>)}
     ELSE /\ call' = [call EXCEPT ![d].pc = "done", ![d].ok = FALSE, ![d].status = status]
          /\ wire' = {}
  /\ UNCHANGED <<srvVars, reqVars, created, fs, index, op, out, pushedAll, masterKey,
                 account, creds, setup>>

\* apiRequest after refreshAccessToken: when the refresh was answered with a
\* new access token it is saved and apiRequest(path, options) is called again;
\* otherwise the 401 is returned
ApiRefreshed(d, refreshed, token) ==
  /\ call[d].pc = "refresh"
  /\ IF refreshed
     THEN /\ creds' = [creds EXCEPT ![d].accessToken = token]
          /\ call' = [call EXCEPT ![d].pc = "fetch"]
          /\ wire' = {Msg(call[d].kind, token, {}, <<>>, <<>>)}
     ELSE /\ call' = [call EXCEPT ![d].pc = "done", ![d].ok = FALSE, ![d].status = 401]
          /\ wire' = {}
          /\ UNCHANGED creds
  /\ UNCHANGED <<srvVars, reqVars, created, fs, index, op, out, pushedAll, masterKey,
                 account, setup>>

\* a sync command asks for the passphrase and unlocks the vault (getMasterKey)
Unlock(d, passphrase) ==
  /\ setup[d].pc = "idle"
  /\ op[d].kind = "idle"
  /\ creds[d].accessToken # ""
  /\ masterKey' = [masterKey EXCEPT ![d] = GetMasterKey(creds[d], passphrase)]
  /\ wire' = {}
  /\ UNCHANGED <<srvVars, reqVars, created, syncVars, keyVars>>

\* a variant that answers with the skill's current version, whatever the hash
GetSkillVersionHandlerCurrent(S, skillKey, hash) ==
  LET skill == FindSkillByKey(S, skillKey)
      version == FindSkillVersion(S, skill.id, skill.currentHash)
  IN  IF skill = NoSkill \/ version = {}
      THEN [ok |-> FALSE, version |-> {}]
      ELSE [ok |-> TRUE, version |-> version]

\* GET /skills/:skillKey/versions/:hash
GetSkillVersionHandler(S, skillKey, hash) ==
  LET skill == FindSkillByKey(S, skillKey)
      version == FindSkillVersion(S, skill.id, hash)
  IN  IF skill = NoSkill \/ version = {}
      THEN [ok |-> FALSE, version |-> {}]
      ELSE [ok |-> TRUE, version |-> version]

\* runCheckout: fetch the version, decrypt it, write it, set the index entry
Checkout(d, skillKey, hash) ==
  /\ op[d].kind = "idle"
  /\ masterKey[d] # NoMasterKey
  /\ wire' = {Msg("getSkillVersion", creds[d].accessToken, SkillKeyText(skillKey),
                  <<>>, <<[hash |-> hash]>>)}
  /\ LET result == GetSkillVersionHandler(Srv, skillKey, hash)
     IN  IF ~ result.ok
         THEN UNCHANGED <<fs, index>>
         ELSE LET v == CHOOSE x \in result.version : TRUE
                  dec == DecryptSkill(v.encryptedData, v.iv, v.tag, masterKey[d])
              IN  IF ~ dec.ok
                  THEN UNCHANGED <<fs, index>>
                  ELSE /\ fs' = [fs EXCEPT ![d] = WriteSkill(@, dec.plaintext)]
                       /\ index' = [index EXCEPT ![d].skills =
                                      (skillKey :> IndexEntry(hash,
                                                     HashContent(dec.plaintext.content,
                                                                 dec.plaintext.files),
                                                     v.createdAt)) @@ @]
  /\ out' = NoOut
  /\ pushedAll' = [pushedAll EXCEPT ![d] = FALSE]
  /\ UNCHANGED <<srvVars, reqVars, created, op, masterKey, keyVars>>

InitCli ==
  /\ fs = [d \in Devices |-> EmptyFs]
  /\ index = [d \in Devices |-> EmptyIndex]
  /\ op = [d \in Devices |-> IdleOp]
  /\ out = NoOut
  /\ pushedAll = [d \in Devices |-> FALSE]
  /\ wire = {}
  /\ call = [d \in Devices |-> NoCall]

\* every device has run first-time setup or login and unlocked the vault
InitUnlocked ==
  LET wrapped == ToBase64(WrapMasterKey("mk1", DeriveKeyFromPassphrase("pw1", "s1"), "iv1"))
  IN  /\ masterKey = [d \in Devices |-> "mk1"]
      /\ account = [salt |-> ToBase64("s1"), encryptedMasterKey |-> wrapped]
      /\ creds = [d \in Devices |->
                    Credentials(AccessToken(d), RefreshToken(d), wrapped, ToBase64("s1"))]
      /\ setup = [d \in Devices |-> NoSetup]

(***************************************************************************)
(* SpecSeq: the server alone, push requests handled one at a time.         *)
(***************************************************************************)
SeqSkill(content) ==
  [name |-> "n1", type |-> "command", content |-> content, files |-> NoFiles,
   path |-> [dir |-> "commands", base |-> "n1", ext |-> ".md"]]

\* the random iv and the optional commit message of one push
SeqInputs == {[iv |-> "iv1", message |-> NullMessage], [iv |-> "iv2", message |-> "m1"]}

SeqKeys == {GetSkillKey(SeqSkill(c)) : c \in Contents}

SeqRequests ==
  {PushRequest(SeqSkill(c), "mk1", i.iv, i.message) : c \in Contents, i \in SeqInputs}

\* a request whose body lacks the hash
Malformed(req) == [req EXCEPT !.body.hash = NullHash]

InitSrv ==
  /\ skills = {}
  /\ skillVersions = {}
  /\ clock = 1
  /\ nextId = 1

InitSeq ==
  /\ InitSrv
  /\ reqs = << >>
  /\ lastResp = ErrorResponse(0)
  /\ nPush = 0
  /\ created = {}
  /\ InitCli
  /\ InitUnlocked

NextSeq ==
  \/ \E r \in ReqIds, req \in SeqRequests :
       DOMAIN reqs = {} /\ PushFind(r, req.skillKey, req.body)
  \/ \E r \in ReqIds, req \in SeqRequests :
       DOMAIN reqs = {} /\ PushFind(r, req.skillKey, Malformed(req).body)
  \/ \E r \in ReqIds : PushCreateSkill(r)
  \/ \E r \in ReqIds : PushCreateVersion(r)
  \/ \E r \in ReqIds : PushUpdatePointer(r)
  \/ ServerStop
  \/ \E k \in SeqKeys : DeleteSkillHandler(k)

SpecSeq == InitSeq /\ [][NextSeq]_vars

(***************************************************************************)
(* SpecChain: as SpecSeq, with a server that never stops mid-request.      *)
(***************************************************************************)
NextChain ==
  \/ \E r \in ReqIds, req \in SeqRequests :
       DOMAIN reqs = {} /\ PushFind(r, req.skillKey, req.body)
  \/ \E r \in ReqIds : PushCreateSkill(r)
  \/ \E r \in ReqIds : PushCreateVersion(r)
  \/ \E r \in ReqIds : PushUpdatePointer(r)

SpecChain == InitSeq /\ [][NextChain]_vars

(***************************************************************************)
(* Spec: a device edits, pushes, pulls and asks for status while other     *)
(* devices of the account push; the server handles each request without    *)
(* interleaving.                                                           *)
(***************************************************************************)
\* what the device's user saves: n1.md with any content, and n1.txt beside it
Edits ==
  {[path |-> Path("commands", "n1", ".md"), content |-> c] : c \in Contents}
    \cup {[path |-> Path("commands", "n1", ".txt"), content |-> "Y"]}

Messages == {NullMessage}
SyncIVs == {"iv1"}

\* the skills a set of trees lists
SkillsOf(trees) ==
  UNION {{ListAllSkills(t)[i] : i \in 1..Len(ListAllSkills(t))} : t \in trees}

\* the trees of the other devices: the command n1
CommandTrees ==
  {WriteFile(EmptyFs, Path("commands", "n1", ".md"), c) : c \in Contents}

\* the trees of the other devices: a command, an agent, a skill directory
\* without supporting file, one with one, and two with the same two supporting
\* files that readdir returns in different orders
TypeTrees ==
  {WriteFile(EmptyFs, Path("commands", "n1", ".md"), "X"),
   WriteFile(EmptyFs, Path("agents", "n1", ".md"), "X"),
   WriteEntry(Mkdir(EmptyFs, "n1"), "n1", MainName, "X"),
   WriteEntries(Mkdir(EmptyFs, "n1"), "n1",
                <<[name |-> MainName, content |-> "X"],
                  [name |-> FileNameOrder[1], content |-> "Y"]>>),
   WriteEntries(Mkdir(EmptyFs, "n1"), "n1",
                <<[name |-> MainName, content |-> "X"],
                  [name |-> FileNameOrder[1], content |-> "Y"],
                  [name |-> FileNameOrder[2], content |-> "Y"]>>),
   WriteEntries(Mkdir(EmptyFs, "n1"), "n1",
                <<[name |-> MainName, content |-> "X"],
                  [name |-> FileNameOrder[2], content |-> "Y"],
                  [name |-> FileNameOrder[1], content |-> "Y"]>>)}

Init ==
  /\ InitSrv
  /\ reqs = << >>
  /\ lastResp = ErrorResponse(0)
  /\ nPush = 0
  /\ created = {}
  /\ InitCli
  /\ InitUnlocked

Next ==
  \/ \E d \in SyncDevices, e \in Edits : UserWriteFile(d, e.path, e.content)
  \/ \E d \in SyncDevices, m \in Messages :
       \E ivs \in [ToPush(d) -> SyncIVs] : PushBegin(d, m, ivs)
  \/ \E d \in SyncDevices, delivered \in BOOLEAN :
       \E i \in DOMAIN op[d].reqs : PushServe(d, i, delivered)
  \/ \E d \in SyncDevices : \E i \in DOMAIN op[d].reqs : PushLost(d, i)
  \/ \E skill \in SkillsOf(CommandTrees), iv \in SyncIVs, m \in Messages :
       RemotePush(skill, "mk1", iv, m)
  \/ \E d \in SyncDevices : PushEnd(d)
  \/ \E d \in SyncDevices, inSave \in BOOLEAN : Kill(d, inSave)
  \/ \E d \in SyncDevices, listOk \in BOOLEAN : PullBegin(d, listOk)
  \/ \E d \in SyncDevices, netOk \in BOOLEAN :
       \E i \in 1..Len(op[d].results) : PullFetch(d, i, netOk)
  \/ \E d \in SyncDevices : PullEnd(d)
  \/ \E d \in SyncDevices, listOk \in BOOLEAN : Status(d, listOk)

Spec == Init /\ [][Next]_vars

(***************************************************************************)
(* SpecPull: a device without local skills pulls, pushes and asks for      *)
(* status while other devices push skills of every type.                   *)
(***************************************************************************)
NextPull ==
  \/ \E skill \in SkillsOf(TypeTrees), iv \in SyncIVs, m \in Messages :
       RemotePush(skill, "mk1", iv, m)
  \/ \E d \in SyncDevices, m \in Messages :
       \E ivs \in [ToPush(d) -> SyncIVs] : PushBegin(d, m, ivs)
  \/ \E d \in SyncDevices, delivered \in BOOLEAN :
       \E i \in DOMAIN op[d].reqs : PushServe(d, i, delivered)
  \/ \E d \in SyncDevices : PushEnd(d)
  \/ \E d \in SyncDevices, listOk \in BOOLEAN : PullBegin(d, listOk)
  \/ \E d \in SyncDevices, netOk \in BOOLEAN :
       \E i \in 1..Len(op[d].results) : PullFetch(d, i, netOk)
  \/ \E d \in SyncDevices : PullEnd(d)
  \/ \E d \in SyncDevices, listOk \in BOOLEAN : Status(d, listOk)

SpecPull == Init /\ [][NextPull]_vars

(***************************************************************************)
(* SpecRepair: pushes handled one at a time by a server that may stop      *)
(* mid-request, while a device of the account keeps syncing: it pulls,     *)
(* asks for status and pushes.  Every sync command that can run does run,  *)
(* and a handler in flight proceeds unless the server stops; nobody is     *)
(* obliged to push new content.                                            *)
(***************************************************************************)
RepairRequests ==
  {PushRequest(SeqSkill(c), "mk1", "iv1", NullMessage) : c \in Contents}

NextRepair ==
  \/ \E r \in ReqIds, req \in RepairRequests :
       DOMAIN reqs = {} /\ PushFind(r, req.skillKey, req.body)
  \/ \E r \in ReqIds : PushCreateSkill(r)
  \/ \E r \in ReqIds : PushCreateVersion(r)
  \/ \E r \in ReqIds : PushUpdatePointer(r)
  \/ ServerStop
  \/ \E d \in SyncDevices : PullBegin(d, TRUE)
  \/ \E d \in SyncDevices : \E i \in 1..Len(op[d].results) : PullFetch(d, i, TRUE)
  \/ \E d \in SyncDevices : PullEnd(d)
  \/ \E d \in SyncDevices : Status(d, TRUE)
  \/ \E d \in SyncDevices : \E ivs \in [ToPush(d) -> SyncIVs] : PushBegin(d, NullMessage, ivs)
  \/ \E d \in SyncDevices : PushEnd(d)

SpecRepair ==
  /\ InitSeq
  /\ [][NextRepair]_vars
  /\ WF_vars(\E r \in ReqIds : PushCreateSkill(r))
  /\ WF_vars(\E r \in ReqIds : PushCreateVersion(r))
  /\ WF_vars(\E r \in ReqIds : PushUpdatePointer(r))
  /\ SF_vars(\E d \in SyncDevices : PullBegin(d, TRUE))
  /\ WF_vars(\E d \in SyncDevices : \E i \in 1..Len(op[d].results) : PullFetch(d, i, TRUE))
  /\ WF_vars(\E d \in SyncDevices : PullEnd(d))
  /\ SF_vars(\E d \in SyncDevices : Status(d, TRUE))
  /\ SF_vars(\E d \in SyncDevices : \E ivs \in [ToPush(d) -> SyncIVs] :
               PushBegin(d, NullMessage, ivs))
  /\ WF_vars(\E d \in SyncDevices : PushEnd(d))

(***************************************************************************)
(* Claims about the version chain.                                         *)
(***************************************************************************)

\* C1: the server stores at most one version per (skill, contentHash); a push
\* of a hash that is already stored for the skill is answered 200, not with an
\* error, and leaves exactly one version for that hash.
C1_OneVersionPerHash ==
  /\ \A v, w \in skillVersions :
       (v.skillId = w.skillId /\ v.hash = w.hash) => v = w
  /\ lastResp.repush =>
       /\ lastResp.status = 200
       /\ (\E r \in skills : r.id = lastResp.skillId) =>
            Cardinality(FindSkillVersion(Srv, lastResp.skillId, lastResp.hash)) = 1

\* C1 witness: a push of an already stored hash has been answered
C1_Witness ==
  /\ lastResp.repush
  /\ lastResp.status = 200
  /\ FindSkillVersion(Srv, lastResp.skillId, lastResp.hash) # {}

\* C4 (as claimed): every stored version's parentHash is the value the skill's
\* pointer had when the version was inserted, and only the skill's first
\* (oldest) version has a null parentHash -- also after a server stop between
\* recording a version and updating the pointer.
C4_ParentIsPointerNullOnlyFirst ==
  \A v \in skillVersions :
    /\ \E e \in created :
         e.skillId = v.skillId /\ e.hash = v.hash /\ e.pointer = v.parentHash
    /\ v.parentHash = NullHash =>
         \A w \in skillVersions : w.skillId = v.skillId => v.createdAt <= w.createdAt

\* C5 (as claimed): with pushes handled one at a time and a server that never
\* stops, no two versions of one skill have the same parentHash.
C5_LinearChain ==
  \A v, w \in skillVersions :
    (v.skillId = w.skillId /\ v # w) => v.parentHash # w.parentHash

(***************************************************************************)
(* Claims about what the server sees.                                      *)
(***************************************************************************)
\* the payload inside an envelope, which only the model can read
Plain(x) == x.encryptedData.p

DifferOnlyInBody(p, q) ==
  /\ p.name = q.name
  /\ p.type = q.type
  /\ p.path = q.path
  /\ p.files = q.files
  /\ p.content # q.content

\* a push request in flight and a stored version whose skills differ only in
\* body content and whose commit messages are the same
SameButBody(r, v) ==
  /\ DifferOnlyInBody(Plain(reqs[r].body), Plain(v))
  /\ reqs[r].body.message = v.message

VersionOf(skillKey, hash) ==
  FindSkillVersion(Srv, FindSkillByKey(Srv, skillKey).id, hash)

\* C6: when the server handles a device's push of a content hash h2 that is
\* new for a skill whose current hash is h3, then, whatever hash the device's
\* index holds for the skill, the server records version h2 with parentHash h3
\* and the skill's current hash is h2 when the request completes.
C6_PushOverStaleBase ==
  [][\A d \in Devices : \A i \in DOMAIN op[d].reqs :
       LET req == op[d].reqs[i]
           skill == FindSkillByKey(Srv, req.skillKey)
       IN  ( /\ op[d].results[i] = Pending
             /\ op'[d].kind = "push"
             /\ op'[d].results[i] # Pending
             /\ srvVars' # srvVars
             /\ skill # NoSkill
             /\ FindSkillVersion(Srv, skill.id, req.body.hash) = {} )
           => /\ \E v \in skillVersions' :
                   /\ v.skillId = skill.id
                   /\ v.hash = req.body.hash
                   /\ v.parentHash = skill.currentHash
              /\ \E row \in skills' :
                   row.id = skill.id /\ row.currentHash = req.body.hash
     ]_vars

\* C6 witness: a push of h2 has just been recorded under parent h3 and made
\* current, by a device whose index held a third hash h1 for the skill
C6_Witness ==
  \E d \in Devices : \E i \in DOMAIN op[d].reqs :
    LET r == op[d].results[i]
        loaded == op[d].loaded.skills
    IN  /\ r.type = "success"
        /\ r.skillKey \in DOMAIN loaded
        /\ loaded[r.skillKey].hash # r.hash
        /\ FindSkillByKey(Srv, r.skillKey).currentHash = r.hash
        /\ \E v \in VersionOf(r.skillKey, r.hash) :
             /\ v.parentHash \notin {NullHash, loaded[r.skillKey].hash}
             /\ v.createdAt = clock - 2

\* C7 (as claimed): when a pull that started from an empty index has fetched
\* every skill, the device's listing holds, for each skill pulled, a skill with
\* the same skill key and the pulled content hash.
C7_PullRoundTrip ==
  \A d \in Devices :
    ( /\ op[d].kind = "pull"
      /\ op[d].loaded.skills = << >>
      /\ \A i \in 1..Len(op[d].results) : op[d].results[i] # Pending )
    => \A i \in 1..Len(op[d].results) :
         op[d].results[i].type = "success" =>
           \E k \in 1..Len(ListAllSkills(fs[d])) :
             /\ GetSkillKey(ListAllSkills(fs[d])[k]) = op[d].results[i].skillKey
             /\ ComputeSkillHash(ListAllSkills(fs[d])[k]) = op[d].results[i].hash

\* C8 (as claimed): a push that follows a push in which every local skill was
\* pushed successfully, with no local change in between, sends no request, and
\* after such a push status counts no skill as pending push.
C8_SecondPushSendsNothing ==
  \A d \in Devices :
    /\ (op[d].kind = "push" /\ op[d].afterFull) => DOMAIN op[d].reqs = {}
    /\ (op[d].kind = "idle" /\ pushedAll[d]) =>
         GetSyncStatus(ListAllSkills(fs[d]), index[d], ListResult(TRUE)).pendingPush = 0

\* C9 (as claimed): when pushSkills returns, the index entry of every skill
\* whose push succeeded holds that skill's content hash and the createdAt the
\* server reported; and a first push from an empty index with one local skill
\* that leaves the skill's only version leaves it with parentHash null.
C9_IndexAfterPush ==
  [][\A d \in Devices :
       (op[d].kind = "push" /\ op'[d].kind = "idle" /\ out'.cmd = "push") =>
         \A i \in 1..Len(op[d].results) :
           LET r == op[d].results[i]
               skillKey == GetSkillKey(op[d].skills[i])
           IN  r.type = "success" =>
                 /\ skillKey \in DOMAIN index'[d].skills
                 /\ index'[d].skills[skillKey].hash = ComputeSkillHash(op[d].skills[i])
                 /\ index'[d].skills[skillKey].remoteUpdatedAt = r.remoteUpdatedAt
                 /\ \A v \in VersionOf(skillKey, r.hash) :
                      /\ r.remoteUpdatedAt = v.createdAt
                      /\ ( /\ op[d].loaded.skills = << >>
                           /\ Len(op[d].skills) = 1
                           /\ \A w \in skillVersions : w.skillId = v.skillId => w = v )
                         => v.parentHash = NullHash
     ]_vars

\* the positions, in a device's listing, of the skills whose hash its index holds
SyncedAt(d) ==
  {k \in 1..Len(ListAllSkills(fs[d])) :
     LET skill == ListAllSkills(fs[d])[k]
     IN  /\ GetSkillKey(skill) \in DOMAIN index[d].skills
         /\ index[d].skills[GetSkillKey(skill)].hash = ComputeSkillHash(skill)}

\* the remote skills with a current hash whose key no local skill of the device has
RemoteOnly(d) ==
  {row \in skills :
     /\ row.currentHash # NullHash
     /\ \A k \in 1..Len(ListAllSkills(fs[d])) :
          GetSkillKey(ListAllSkills(fs[d])[k]) # row.skillKey}

\* C10: the counts getSyncStatus returns: synced is the number of local skills
\* whose content hash is the index's hash for their key, pendingPush the number
\* of the other local skills, pendingPull (when the remote list was obtained)
\* the number of remote skills with a current hash and a key no local skill
\* has; synced + pendingPush is the number of local skills.
C10_StatusCounts ==
  out.cmd = "status" =>
    LET d == out.dev
        n == Len(ListAllSkills(fs[d]))
    IN  /\ out.local = n
        /\ out.synced = Cardinality(SyncedAt(d))
        /\ out.pendingPush = Cardinality((1..n) \ SyncedAt(d))
        /\ out.remoteOk => out.pendingPull = Cardinality(RemoteOnly(d))
        /\ out.synced + out.pendingPush = n

\* C10 witness: status has counted a synced skill, a skill pending push and no
\* pending pull although the server holds a skill
C10_Witness ==
  /\ out.cmd = "status"
  /\ out.remoteOk
  /\ out.synced = 1
  /\ out.pendingPush = 1
  /\ out.pendingPull = 0
  /\ skills # {}

\* the skill key of the i-th skill of a device's running batch
BatchKey(d, i) ==
  IF op[d].kind = "push" THEN GetSkillKey(op[d].skills[i]) ELSE op[d].remote[i].skillKey

\* C11 (as claimed): when a push or pull batch returns, it returns counts and
\* one error per failed skill; every skill that succeeded has its hash in the
\* index although another skill of the batch failed, and every skill that
\* failed has the index entry it had before the batch (or none, as before).
C11_BatchFailureIsolated ==
  [][\A d \in Devices :
       ( /\ op[d].kind \in {"push", "pull"}
         /\ op'[d].kind = "idle"
         /\ out'.cmd \in {"push", "pull"} ) =>
         LET results == op[d].results
             failed == {i \in 1..Len(results) : results[i].type = "error"}
             succeeded == {i \in 1..Len(results) : results[i].type = "success"}
             before == op[d].loaded.skills
             after == index'[d].skills
         IN  /\ out'.errors = Cardinality(failed)
             /\ out'.count = Cardinality(succeeded)
             /\ \A i \in 1..Len(results) : results[i].type \in {"success", "skipped", "error"}
             /\ \A i \in succeeded :
                  BatchKey(d, i) \in DOMAIN after
             /\ \A i \in failed :
                  IF BatchKey(d, i) \in DOMAIN before
                  THEN /\ BatchKey(d, i) \in DOMAIN after
                       /\ after[BatchKey(d, i)] = before[BatchKey(d, i)]
                  ELSE BatchKey(d, i) \notin DOMAIN after
     ]_vars

\* C12 (as claimed), the part about the index: a kill of the CLI process at
\* any point of a push batch leaves the local index with the entries it had
\* before the batch.
C12_KillKeepsIndex ==
  [][\A d \in Devices :
       (op[d].kind = "push" /\ out'.cmd = "killed" /\ out'.dev = d) =>
         index'[d].skills = op[d].loaded.skills
     ]_vars

\* no handler is in flight and a skill has a version recorded after the last
\* update of its pointer: the server stopped between the two writes
PointerBehind ==
  /\ DOMAIN reqs = {}
  /\ \E row \in skills : \E v \in skillVersions :
       v.skillId = row.id /\ v.createdAt > row.updatedAt

\* every skill's pointer names the skill's newest version
PointerNamesNewest ==
  \A row \in skills : \A v \in skillVersions :
    ( /\ v.skillId = row.id
      /\ \A w \in skillVersions : w.skillId = row.id => w.createdAt <= v.createdAt )
    => row.currentHash = v.hash

\* C13 (as claimed): when the server has recorded a version and stopped before
\* updating the skill's pointer, the syncs that follow repair it: eventually
\* the pointer names the skill's newest version.
C13_PointerRepaired == PointerBehind ~> PointerNamesNewest

\* two decrypted skills with the same name, type and body and the same set of
\* supporting files (name and content)
SameUpToFileOrder(p, q) ==
  /\ p.name = q.name
  /\ p.type = q.type
  /\ p.content = q.content
  /\ p.files.defined = q.files.defined
  /\ Len(p.files.list) = Len(q.files.list)
  /\ {p.files.list[i] : i \in 1..Len(p.files.list)}
       = {q.files.list[i] : i \in 1..Len(q.files.list)}

\* C17 (as claimed): two pushed skills with the same name, type, body and the
\* same set of supporting files, listed in whatever order, have the same
\* content hash.
C17_HashIgnoresFileOrder ==
  \A v, w \in skillVersions :
    SameUpToFileOrder(Plain(v), Plain(w)) => v.hash = w.hash

(***************************************************************************)
(* SpecKeys: a device runs first-time setup and login, unlocks the vault,  *)
(* edits, pushes, pulls, asks for status and checks a version out.         *)
(***************************************************************************)
InitKeys ==
  /\ InitSrv
  /\ reqs = << >>
  /\ lastResp = ErrorResponse(0)
  /\ nPush = 0
  /\ created = {}
  /\ InitCli
  /\ masterKey = [d \in Devices |-> NoMasterKey]
  /\ account = [salt |-> NoSalt, encryptedMasterKey |-> NoBlob]
  /\ creds = [d \in Devices |-> NoCredentials]
  /\ setup = [d \in Devices |-> NoSetup]

KeysEdits == {[path |-> Path("commands", "n1", ".md"), content |-> c] : c \in {"X", "Y"}}

NextKeys ==
  \/ \E d \in SyncDevices, flow \in {"onboarding", "login"} : RequestOtp(d, flow)
  \/ \E d \in SyncDevices : VerifyOtp(d)
  \/ \E d \in SyncDevices, p \in Passphrases, k \in MasterKeys, iv \in SyncIVs :
       CreateKeys(d, p, RandomSalt[d], k, GenerateRecoveryKey(RandomRecoveryBytes[d]), iv)
  \/ \E d \in SyncDevices : UploadSalt(d)
  \/ \E d \in SyncDevices : StoreSalt(d)
  \/ \E d \in SyncDevices : UploadMasterKey(d)
  \/ \E d \in SyncDevices : FetchSalt(d)
  \/ \E d \in SyncDevices : FetchMasterKey(d)
  \/ \E d \in SyncDevices : Refresh(d)
  \/ \E d \in SyncDevices, p \in Passphrases : Unlock(d, p)
  \/ \E d \in SyncDevices, e \in KeysEdits : UserWriteFile(d, e.path, e.content)
  \/ \E d \in SyncDevices, m \in {NullMessage, "m1"} :
       \E ivs \in [ToPush(d) -> SyncIVs] :
         masterKey[d] # NoMasterKey /\ setup[d].pc = "idle" /\ PushBegin(d, m, ivs)
  \/ \E d \in SyncDevices :
       \E i \in DOMAIN op[d].reqs : PushServe(d, i, TRUE)
  \/ \E d \in SyncDevices : PushEnd(d)
  \/ \E d \in SyncDevices :
       masterKey[d] # NoMasterKey /\ setup[d].pc = "idle" /\ PullBegin(d, TRUE)
  \/ \E d \in SyncDevices : \E i \in 1..Len(op[d].results) : PullFetch(d, i, TRUE)
  \/ \E d \in SyncDevices : PullEnd(d)
  \/ \E d \in SyncDevices : setup[d].pc = "idle" /\ creds[d].accessToken # "" /\ Status(d, TRUE)
  \/ \E d \in SyncDevices, row \in skills, v \in skillVersions :
       setup[d].pc = "idle" /\ Checkout(d, row.skillKey, v.hash)

SpecKeys == InitKeys /\ [][NextKeys]_vars

(***************************************************************************)
(* Claims about the keys.                                                  *)
(***************************************************************************)
\* the parts of a wrapped master key sent in a message: iv, tag, ciphertext
Wrapped(m) ==
  LET full == FromBase64(m.encoded[1])
  IN  <<ValueOf(Slice(full, 0, AES_IV_LENGTH)),
        ValueOf(Slice(full, AES_IV_LENGTH, AES_IV_LENGTH + AES_TAG_LENGTH)),
        ValueOf(Slice(full, AES_IV_LENGTH + AES_TAG_LENGTH, Len(full)))>>

\* C3: in every message the CLI sends during first-time setup, login, push,
\* pull and checkout, no token, text field, salt or commit message is a
\* passphrase, a derived key, a master key or a recovery key; a master key is
\* sent only by setMasterKey, as a ciphertext under a derived key; and a push
\* carries the skill only as a ciphertext under the master key.
C3_MasterKeyOnlyWrapped ==
  \A m \in wire :
    /\ m.token \notin Secrets
    /\ \A t \in m.text : t[2] \notin Secrets
    /\ m.kind = "setSalt" => FromBase64(m.encoded[1]) \notin Secrets
    /\ m.kind = "setMasterKey" =>
         /\ Wrapped(m)[1] \notin Secrets
         /\ Wrapped(m)[3].k \in DerivedKeys
         /\ Wrapped(m)[3].p \in MasterKeys
    /\ m.kind \notin {"setSalt", "setMasterKey"} => m.encoded = <<>>
    /\ m.kind = "pushSkillVersion" =>
         /\ m.data[1].message \notin Secrets
         /\ m.data[1].iv \notin Secrets
         /\ m.data[1].encryptedData.k \in MasterKeys
         /\ DOMAIN m.data[1] = {"hash", "encryptedData", "iv", "tag", "message"}

\* C3 witness: the wrapped master key is on its way to the server
C3_Witness ==
  \E m \in wire :
    /\ m.kind = "setMasterKey"
    /\ Wrapped(m)[3].p \in MasterKeys
    /\ Wrapped(m)[3].k \in DerivedKeys

(***************************************************************************)
(* SpecSetup: the devices of one account run first-time setup and login    *)
(* side by side, unlock the vault and push the skill they hold.            *)
(***************************************************************************)
SetupContent == [d \in Devices |-> IF d = "d1" THEN "X" ELSE "Y"]

\* the command each device runs, the master key it draws in it, and the
\* passphrase the account's user chooses
SetupFlow == [d \in Devices |-> IF d = "d1" THEN "onboarding" ELSE "login"]
RandomMasterKey == [d \in Devices |-> IF d = "d1" THEN "mk1" ELSE "mk2"]
SetupPassphrase == "pw1"

InitSetup ==
  /\ InitSrv
  /\ reqs = << >>
  /\ lastResp = ErrorResponse(0)
  /\ nPush = 0
  /\ created = {}
  /\ fs = [d \in Devices |->
             WriteFile(EmptyFs, Path("commands", "n1", ".md"), SetupContent[d])]
  /\ index = [d \in Devices |-> EmptyIndex]
  /\ op = [d \in Devices |-> IdleOp]
  /\ out = NoOut
  /\ pushedAll = [d \in Devices |-> FALSE]
  /\ wire = {}
  /\ call = [d \in Devices |-> NoCall]
  /\ masterKey = [d \in Devices |-> NoMasterKey]
  /\ account = [salt |-> NoSalt, encryptedMasterKey |-> NoBlob]
  /\ creds = [d \in Devices |-> NoCredentials]
  /\ setup = [d \in Devices |-> NoSetup]

NextSetup ==
  \/ \E d \in Devices : RequestOtp(d, SetupFlow[d])
  \/ \E d \in Devices : VerifyOtp(d)
  \/ \E d \in Devices, iv \in SyncIVs :
       CreateKeys(d, SetupPassphrase, RandomSalt[d], RandomMasterKey[d],
                  GenerateRecoveryKey(RandomRecoveryBytes[d]), iv)
  \/ \E d \in Devices : UploadSalt(d)
  \/ \E d \in Devices : StoreSalt(d)
  \/ \E d \in Devices : UploadMasterKey(d)
  \/ \E d \in Devices : FetchSalt(d)
  \/ \E d \in Devices : FetchMasterKey(d)
  \/ \E d \in Devices, p \in Passphrases : Unlock(d, p)
  \/ \E d \in Devices : \E ivs \in [ToPush(d) -> SyncIVs] :
       masterKey[d] # NoMasterKey /\ setup[d].pc = "idle" /\ PushBegin(d, NullMessage, ivs)
  \/ \E d \in Devices : \E i \in DOMAIN op[d].reqs : PushServe(d, i, TRUE)
  \/ \E d \in Devices : PushEnd(d)

SpecSetup == InitSetup /\ [][NextSetup]_vars

\* C16 (as claimed): once the server has stored a salt for the account, the
\* salt never changes and every later PUT /account/salt ends in a conflict,
\* also when two first-time setups of the account run side by side.
C16_SaltSetOnce ==
  [][account.salt # NoSalt =>
       /\ account'.salt = account.salt
       /\ \A d \in Devices :
            (setup[d].pc = "salt" /\ setup'[d].pc # "salt") => setup'[d].pc = "idle"
    ]_vars

\* C15 (as claimed): all versions stored for the account are encrypted under
\* one master key, for every interleaving of setup, login and push run from
\* the account's devices.
C15_OneMasterKey ==
  \A v, w \in skillVersions : v.encryptedData.k = w.encryptedData.k

\* C14 (as claimed): after first-time setup has completed, unlocking with the
\* displayed recovery words, the account's salt and the wrapped master key
\* stored at setup returns the master key generated at setup.
C14_RecoveryWordsUnlock ==
  \A d \in Devices :
    (setup[d].pc = "idle" /\ setup[d].shown # <<>>) =>
      RecoverMasterKey(account.encryptedMasterKey, account.salt,
                       ParseRecoveryKey(setup[d].shown)) = setup[d].generated

\* C18: the wrapped master key written at setup is the iv (12 bytes), the tag
\* (16 bytes) and the ciphertext, in this order, and getMasterKey, slicing it
\* at [0,12), [12,28) and [28,end), with the passphrase and the salt of the
\* setup returns the master key generated at setup.
C18_WrappedKeyLayout ==
  \A d \in Devices :
    setup[d].generated # NoMasterKey =>
      LET full == FromBase64(creds[d].encryptedMasterKey)
      IN  /\ IsWhole(SubSeq(full, 1, 12), "iv")
          /\ IsWhole(SubSeq(full, 13, 28), "tag")
          /\ IsWhole(SubSeq(full, 29, Len(full)), "ciphertext")
          /\ FromBase64(creds[d].salt) = RandomSalt[d]
          /\ GetMasterKey(creds[d], setup[d].passphrase) = setup[d].generated

\* C18 witness: setup has completed, and the vault was unlocked with the
\* passphrase of the setup to the master key generated in it
C18_Witness ==
  \E d \in Devices :
    /\ setup[d].pc = "idle"
    /\ setup[d].generated # NoMasterKey
    /\ masterKey[d] = setup[d].generated
    /\ Len(FromBase64(creds[d].encryptedMasterKey)) = 60

(***************************************************************************)
(* SpecRecovery: first-time setup at the point where the salt is stored,   *)
(* for every recovery key generateRecoveryKey can draw; the setup uploads  *)
(* the wrapped master key and displays the recovery key.                   *)
(***************************************************************************)
InitRecovery ==
  \E bytes \in [1..RecoveryKeyLength -> ByteValues] :
    LET d == "d1"
        derivedKey == DeriveKeyFromPassphrase(SetupPassphrase, RandomSalt[d])
        wrapped == ToBase64(WrapMasterKey(RandomMasterKey[d], derivedKey, "iv1"))
    IN  /\ InitSrv
        /\ reqs = << >>
        /\ lastResp = ErrorResponse(0)
        /\ nPush = 0
        /\ created = {}
        /\ InitCli
        /\ masterKey = [x \in Devices |-> NoMasterKey]
        /\ account = [salt |-> ToBase64(RandomSalt[d]), encryptedMasterKey |-> NoBlob]
        /\ creds = [x \in Devices |->
                      IF x = d
                      THEN Credentials(AccessToken(d), RefreshToken(d), wrapped,
                                       ToBase64(RandomSalt[d]))
                      ELSE NoCredentials]
        /\ setup = [x \in Devices |->
                      IF x = d
                      THEN [NoSetup EXCEPT !.pc = "key", !.flow = "onboarding",
                                           !.passphrase = SetupPassphrase,
                                           !.generated = RandomMasterKey[d],
                                           !.recoveryKey = GenerateRecoveryKey(bytes)]
                      ELSE NoSetup]

NextRecovery == \E d \in SyncDevices : UploadMasterKey(d)

SpecRecovery == InitRecovery /\ [][NextRecovery]_vars

DistinctKeys(list) ==
  \A i, j \in 1..Len(list) : GetSkillKey(list[i]) = GetSkillKey(list[j]) => i = j

\* C20 (as claimed): the server never holds two skill records of the account
\* with the same skill key, and no push batch and no status computation
\* operates on two local skills with the same skill key.
C20_SkillKeyUnique ==
  /\ \A r1, r2 \in skills : r1.skillKey = r2.skillKey => r1 = r2
  /\ \A d \in Devices : op[d].kind = "push" => DistinctKeys(op[d].skills)
  /\ out.cmd = "status" => DistinctKeys(ListAllSkills(fs[out.dev]))

(***************************************************************************)
(* SpecConc: the server alone, with two push handlers in flight at a time, *)
(* for two skills, while skills are deleted and the server may stop.       *)
(***************************************************************************)
ConcReqIds == {1, 2}

\* the number of push requests the server is sent
ConcPushes == 4

ConcSkills ==
  {SeqSkill("X"), SeqSkill("Y"), [SeqSkill("X") EXCEPT !.type = "agent", !.path.dir = "agents"]}

ConcRequests == {PushRequest(k, "mk1", "iv1", NullMessage) : k \in ConcSkills}

NextConc ==
  \/ \E r \in ConcReqIds, req \in ConcRequests :
       nPush < ConcPushes /\ PushFind(r, req.skillKey, req.body)
  \/ \E r \in ConcReqIds : PushCreateSkill(r)
  \/ \E r \in ConcReqIds : PushCreateVersion(r)
  \/ \E r \in ConcReqIds : PushUpdatePointer(r)
  \/ ServerStop
  \/ DeleteSkillHandler(GetSkillKey(SeqSkill("X")))

SpecConc == InitSeq /\ [][NextConc]_vars

\* C21: every stored version stays retrievable by its hash and keeps its
\* hash, parentHash and createdAt across every later step of the server, pushes
\* to its skill and to other skills included; its row goes only with its skill.
C21_HistoryRetained ==
  [][\A v \in skillVersions :
       IF \E row \in skills' : row.id = v.skillId
       THEN LET row == CHOOSE x \in skills' : x.id = v.skillId
                got == GetSkillVersionHandler(Srv', row.skillKey, v.hash)
            IN  /\ got.ok
                /\ \A w \in got.version :
                     /\ w.skillId = v.skillId
                     /\ w.hash = v.hash
                     /\ w.parentHash = v.parentHash
                     /\ w.createdAt = v.createdAt
       ELSE /\ \A w \in skillVersions' : w.skillId # v.skillId
            /\ \E row \in skills : row.id = v.skillId
    ]_vars

\* C21 witness: a version is stored together with a later version of its skill
\* that was pushed over it, a re-push of its own hash answered, and a later
\* version of another skill
C21_Witness ==
  \E v, w, x \in skillVersions :
    /\ w.skillId = v.skillId /\ w.parentHash = v.hash /\ w.createdAt > v.createdAt
    /\ x.skillId # v.skillId /\ x.createdAt > v.createdAt
    /\ lastResp.repush /\ lastResp.hash = v.hash /\ lastResp.skillId = v.skillId
    /\ lastResp.status = 200

(***************************************************************************)
(* SpecFork: the server alone, with two push handlers in flight at a time  *)
(* for one skill; it neither stops nor deletes.                            *)
(***************************************************************************)
NextFork ==
  \/ \E r \in ConcReqIds, req \in RepairRequests :
       nPush < ConcPushes /\ PushFind(r, req.skillKey, req.body)
  \/ \E r \in ConcReqIds : PushCreateSkill(r)
  \/ \E r \in ConcReqIds : PushCreateVersion(r)
  \/ \E r \in ConcReqIds : PushUpdatePointer(r)

SpecFork == InitSeq /\ [][NextFork]_vars

\* C22: a push handler that has read the pointer of an existing skill and
\* carries a hash not yet stored is accepted with the pointer it read as
\* parentHash, whatever versions of the skill already have that parentHash:
\* its insert succeeds and adds exactly its version, nothing is merged or
\* refused, and the handler that updates the pointer answers 200.  So two
\* versions of one skill with the same parentHash are reachable.
C22_ConcurrentPushesFork ==
  /\ \A r \in DOMAIN reqs :
       LET q == reqs[r]
           res == CreateSkillVersion(Srv, q.skill.id, q.body.hash, q.body.encryptedData,
                                     q.body.iv, q.body.tag, q.skill.currentHash,
                                     q.body.message)
       IN  ( /\ q.pc = "version"
             /\ \E row \in skills : row.id = q.skill.id
             /\ FindSkillVersion(Srv, q.skill.id, q.body.hash) = {} )
           => /\ res.ok
              /\ res.row.parentHash = q.skill.currentHash
              /\ res.S.versions = skillVersions \cup {res.row}
  /\ \A r \in DOMAIN reqs :
       reqs[r].pc = "pointer" => reqs[r].version.hash = reqs[r].body.hash
  /\ lastResp.status \in {0, 200, 500}
  /\ lastResp.status = 500 => lastResp.skillId = 0

\* C22 witness: two versions of one skill have the same, non-null parentHash;
\* the push of one has been answered 200 and the handler of the other has
\* inserted its version and is about to answer
C22_Witness ==
  \E v, w \in skillVersions : \E r \in DOMAIN reqs :
    /\ v.skillId = w.skillId
    /\ v.hash # w.hash
    /\ v.parentHash = w.parentHash
    /\ v.parentHash # NullHash
    /\ lastResp.status = 200 /\ lastResp.skillId = v.skillId /\ lastResp.hash = v.hash
    /\ lastResp.parentHash = v.parentHash /\ ~ lastResp.repush
    /\ reqs[r].pc = "pointer" /\ reqs[r].skill.id = w.skillId
    /\ reqs[r].version.hash = w.hash /\ reqs[r].version.parentHash = w.parentHash

\* C26 (as claimed): for every skill, a non-null current hash names a stored
\* version of that skill, and every non-null parentHash names a stored
\* version of the same skill other than the version itself, under concurrent
\* pushes, server stops and skill deletion.
C26_ReferentialIntegrity ==
  /\ \A row \in skills :
       row.currentHash # NullHash => FindSkillVersion(Srv, row.id, row.currentHash) # {}
  /\ \A v \in skillVersions :
       /\ \E row \in skills : row.id = v.skillId
       /\ v.parentHash # NullHash =>
            /\ v.parentHash # v.hash
            /\ FindSkillVersion(Srv, v.skillId, v.parentHash) # {}

\* C26 witness: a skill that was deleted and pushed again has a current
\* version with a parent, while another handler for it is in flight
C26_Witness ==
  \E row \in skills : \E v \in skillVersions : \E r \in DOMAIN reqs :
    /\ row.id > 1
    /\ row.skillKey = GetSkillKey(SeqSkill("X"))
    /\ v.skillId = row.id
    /\ v.hash = row.currentHash
    /\ v.parentHash # NullHash
    /\ reqs[r].skillKey = row.skillKey

\* C23 (as claimed): when a push carries a hash that is already stored for the
\* skill, the stored envelope (ciphertext, iv, tag) and the stored message of
\* that version are replaced by those of the new push.
C23_RepushReplacesEnvelopeAndMessage ==
  [][\A r \in DOMAIN reqs :
       LET q == reqs[r]
       IN  ( /\ q.pc = "version"
             /\ FindSkillVersion(Srv, q.skill.id, q.body.hash) # {}
             /\ r \in DOMAIN reqs'
             /\ reqs'[r].pc = "pointer" )
           => \A v \in FindSkillVersion(Srv', q.skill.id, q.body.hash) :
                /\ v.encryptedData = q.body.encryptedData
                /\ v.iv = q.body.iv
                /\ v.tag = q.body.tag
                /\ v.message = q.body.message
    ]_vars

(***************************************************************************)
(* SpecCheckout: other devices push a command and an agent, under the      *)
(* account's master key, under another key, or with an altered envelope; a *)
(* device edits its files, pulls, asks for status and checks versions out. *)
(***************************************************************************)
\* the request for the agent, with its iv, its tag or its ciphertext altered
AlteredRequests ==
  LET skill == [SeqSkill("X") EXCEPT !.type = "agent", !.path.dir = "agents"]
      req == PushRequest(skill, "mk1", "iv1", NullMessage)
      other == PushRequest([skill EXCEPT !.content = "Y"], "mk1", "iv1", NullMessage)
  IN  {[req EXCEPT !.body.iv = "iv2"],
       [req EXCEPT !.body.tag = other.body.tag],
       [req EXCEPT !.body.encryptedData = other.body.encryptedData]}

NextCheckout ==
  \/ \E skill \in ConcSkills, key \in MasterKeys :
       RemotePush(skill, key, "iv1", NullMessage)
  \/ \E req \in AlteredRequests : RemotePost(req)
  \/ \E d \in SyncDevices, dir \in {"commands", "agents"} :
       UserWriteFile(d, Path(dir, "n1", ".md"), "Y")
  \/ \E d \in SyncDevices : PullBegin(d, TRUE)
  \/ \E d \in SyncDevices : \E i \in 1..Len(op[d].results) : PullFetch(d, i, TRUE)
  \/ \E d \in SyncDevices : PullEnd(d)
  \/ \E d \in SyncDevices : Status(d, TRUE)
  \/ \E d \in SyncDevices, row \in skills, v \in skillVersions :
       Checkout(d, row.skillKey, v.hash)

SpecCheckout == Init /\ [][NextCheckout]_vars

\* the request of a checkout among the messages of a step
CheckoutRequests(msgs) == {m \in msgs : m.kind = "getSkillVersion"}

\* the skill key a checkout request names
CheckoutKey(m) ==
  CHOOSE k \in {row.skillKey : row \in skills} : SkillKeyText(k) = m.text

\* C29: a checkout leaves the server as it is; when version h of the skill is
\* stored and decrypts, the checkout writes that version's content to the
\* skill's file, sets the index entry of the skill key to hash h, and changes
\* no other index entry.
C29_CheckoutFrame ==
  [][\A d \in SyncDevices : \A m \in CheckoutRequests(wire') :
       LET skillKey == CheckoutKey(m)
           h == m.data[1].hash
       IN  /\ srvVars' = srvVars
           /\ \A v \in VersionOf(skillKey, h) :
                DecryptSkill(v.encryptedData, v.iv, v.tag, masterKey[d]).ok =>
                  /\ \E f \in fs'[d].files :
                       /\ f.path = Path(GetSkillTypeDir(skillKey[1]), skillKey[2], ".md")
                       /\ f.content = Plain(v).content
                  /\ skillKey \in DOMAIN index'[d].skills
                  /\ index'[d].skills[skillKey].hash = h
                  /\ \A k \in DOMAIN index'[d].skills \ {skillKey} :
                       k \in DOMAIN index[d].skills
                         /\ index'[d].skills[k] = index[d].skills[k]
                  /\ \A k \in DOMAIN index[d].skills : k \in DOMAIN index'[d].skills
    ]_vars

\* C29 witness: a device whose index holds another skill has checked out a
\* version that is not the skill's current one: its file has that version's
\* content and its index entry that version's hash
C29_Witness ==
  \E d \in SyncDevices : \E m \in CheckoutRequests(wire) :
    LET skillKey == CheckoutKey(m)
        h == m.data[1].hash
    IN  /\ skillKey \in DOMAIN index[d].skills
        /\ index[d].skills[skillKey].hash = h
        /\ FindSkillByKey(Srv, skillKey).currentHash # h
        /\ \E k \in DOMAIN index[d].skills : k # skillKey
        /\ \E v \in VersionOf(skillKey, h) : \E f \in fs[d].files :
             /\ f.path = Path(GetSkillTypeDir(skillKey[1]), skillKey[2], ".md")
             /\ f.content = Plain(v).content

(***************************************************************************)
(* Pull: which skills it fetches, what a failed decryption does, and which *)
(* hash the index records.                                                 *)
(***************************************************************************)
\* the file of a command or agent with this skill key
KeyFiles(tree, skillKey) ==
  {f \in tree.files :
     f.path = Path(GetSkillTypeDir(skillKey[1]), skillKey[2], ".md")}

\* the requests for the current version of this skill among the messages
FetchRequests(msgs, skillKey) ==
  {m \in msgs : m.kind = "getSkill" /\ m.text = SkillKeyText(skillKey)}

\* the version GET /skills/:skillKey serves now
Served(skillKey) == GetSkillHandler(Srv, skillKey).version

\* the envelope was made under this key and none of its parts was altered
Authentic(v, key) ==
  /\ v.encryptedData.k = key
  /\ v.encryptedData.iv = v.iv
  /\ v.tag = [k |-> key, iv |-> v.iv, p |-> v.encryptedData.p]

\* C24: a pull takes up exactly the listed skills that have a current hash
\* which the index does not hold for their key; a skill it does not take up
\* is neither requested nor written and keeps its index entry, and a skill it
\* takes up is requested and, once fetched and decrypted, its file holds the
\* served content whatever the file held before.
C24_PullDecision ==
  [][\A d \in SyncDevices :
       /\ (op[d].kind = "idle" /\ op'[d].kind = "pull") =>
            /\ op'[d].remote = ListUserSkills(skills)
            /\ \A i \in 1..Len(op'[d].remote) :
                 LET r == op'[d].remote[i]
                 IN  (op'[d].results[i] = Pending) <=>
                       ( /\ r.currentHash # NullHash
                         /\ ~ ( /\ r.skillKey \in DOMAIN index[d].skills
                                /\ index[d].skills[r.skillKey].hash = r.currentHash ) )
       /\ (op[d].kind = "pull" /\ op'[d].kind = "pull") =>
            \A i \in 1..Len(op[d].results) :
              LET skillKey == op[d].remote[i].skillKey
              IN  /\ op[d].results[i] # Pending =>
                       /\ op'[d].results[i] = op[d].results[i]
                       /\ FetchRequests(wire', skillKey) = {}
                       /\ KeyFiles(fs'[d], skillKey) = KeyFiles(fs[d], skillKey)
                  /\ (op[d].results[i] = Pending /\ op'[d].results[i] # Pending) =>
                       /\ FetchRequests(wire', skillKey) # {}
                       /\ op'[d].results[i].type = "success" =>
                            \A v \in Served(skillKey) :
                              /\ KeyFiles(fs'[d], skillKey) # {}
                              /\ \A f \in KeyFiles(fs'[d], skillKey) :
                                   f.content = Plain(v).content
       /\ (op[d].kind = "pull" /\ op'[d].kind = "idle" /\ out'.cmd = "pull") =>
            \A i \in 1..Len(op[d].results) :
              LET skillKey == op[d].remote[i].skillKey
              IN  op[d].results[i] = Skipped =>
                    /\ (skillKey \in DOMAIN index'[d].skills)
                         <=> (skillKey \in DOMAIN index[d].skills)
                    /\ skillKey \in DOMAIN index[d].skills =>
                         index'[d].skills[skillKey] = index[d].skills[skillKey]
    ]_vars

\* C24 witness: in one pull a skill whose index hash equals the remote hash
\* was skipped although its local file was edited since the last sync, and a
\* skill whose index entry held an older hash was fetched and written
C24_Witness ==
  \E d \in SyncDevices :
    /\ op[d].kind = "pull"
    /\ \E i, j \in 1..Len(op[d].results) :
         LET fetched == op[d].remote[i].skillKey
             skipped == op[d].remote[j].skillKey
         IN  /\ op[d].results[i].type = "success"
             /\ fetched \in DOMAIN op[d].loaded.skills
             /\ op[d].results[j] = Skipped
             /\ skipped \in DOMAIN op[d].loaded.skills
             /\ op[d].loaded.skills[skipped].hash = op[d].remote[j].currentHash
             /\ \E f \in KeyFiles(fs[d], skipped) : \E v \in Served(skipped) :
                  /\ Authentic(v, masterKey[d])
                  /\ f.content # Plain(v).content

\* C25: when the version a pull fetches does not decrypt under the device's
\* master key (made under another key, or iv, tag or ciphertext altered), the
\* skill's result is an error and no file is written; when the pull returns,
\* every error is counted and the index entry of every failed skill is as it
\* was.
C25_DecryptFailureIsError ==
  [][\A d \in SyncDevices :
       /\ (op[d].kind = "pull" /\ op'[d].kind = "pull") =>
            \A i \in 1..Len(op[d].results) :
              (op[d].results[i] = Pending /\ op'[d].results[i] # Pending) =>
                \A v \in Served(op[d].remote[i].skillKey) :
                  ~ Authentic(v, masterKey[d]) =>
                    /\ op'[d].results[i].type = "error"
                    /\ fs'[d] = fs[d]
       /\ (op[d].kind = "pull" /\ op'[d].kind = "idle" /\ out'.cmd = "pull") =>
            /\ out'.errors =
                 Cardinality({i \in 1..Len(op[d].results) : op[d].results[i].type = "error"})
            /\ \A i \in 1..Len(op[d].results) :
                 LET skillKey == op[d].remote[i].skillKey
                 IN  op[d].results[i].type = "error" =>
                       /\ (skillKey \in DOMAIN index'[d].skills)
                            <=> (skillKey \in DOMAIN index[d].skills)
                       /\ skillKey \in DOMAIN index[d].skills =>
                            index'[d].skills[skillKey] = index[d].skills[skillKey]
    ]_vars

\* C25 witness: a pull has returned with one skill written and one error; the
\* failed skill's current version was made under the device's key and altered
\* afterwards, the device has no file and no index entry for it
C25_Witness ==
  \E d \in SyncDevices :
    /\ out.cmd = "pull" /\ out.dev = d
    /\ out.count >= 1 /\ out.errors >= 1
    /\ \E row \in skills : \E v \in Served(row.skillKey) :
         /\ v.encryptedData.k = masterKey[d]
         /\ ~ Authentic(v, masterKey[d])
         /\ KeyFiles(fs[d], row.skillKey) = {}
         /\ row.skillKey \notin DOMAIN index[d].skills

\* C28 (as claimed): the hash a pull records for a skill it has written is
\* the hash of the version whose content it wrote, and the index entry saved
\* when the pull returns names that hash.
C28_IndexNamesWrittenVersion ==
  [][\A d \in SyncDevices :
       /\ (op[d].kind = "pull" /\ op'[d].kind = "pull") =>
            \A i \in 1..Len(op[d].results) :
              (op[d].results[i] = Pending /\ op'[d].results[i].type = "success") =>
                \A v \in Served(op[d].remote[i].skillKey) :
                  op'[d].results[i].hash = v.hash
       /\ (op[d].kind = "pull" /\ op'[d].kind = "idle" /\ out'.cmd = "pull") =>
            \A i \in 1..Len(op[d].results) :
              op[d].results[i].type = "success" =>
                /\ op[d].remote[i].skillKey \in DOMAIN index'[d].skills
                /\ index'[d].skills[op[d].remote[i].skillKey].hash = op[d].results[i].hash
    ]_vars

\* the remote skills getSyncStatus counts as pending pull on this device
CountedPendingPull(d) ==
  {r \in skills :
     /\ r.currentHash # NullHash
     /\ \A k \in 1..Len(ListAllSkills(fs[d])) :
          GetSkillKey(ListAllSkills(fs[d])[k]) # r.skillKey}

\* C27 (as claimed): every skill status counts as pending pull when a pull
\* starts is taken up by that pull, and when a pull has returned without an
\* error while the server's list is still the one it saw, status counts no
\* skill as pending pull.
C27_StatusAgreesWithPull ==
  [][\A d \in SyncDevices :
       /\ (op[d].kind = "idle" /\ op'[d].kind = "pull") =>
            \A r \in CountedPendingPull(d) :
              \E i \in 1..Len(op'[d].remote) :
                /\ op'[d].remote[i].skillKey = r.skillKey
                /\ op'[d].results[i] = Pending
       /\ ( /\ op[d].kind = "pull" /\ op'[d].kind = "idle"
            /\ out'.cmd = "pull" /\ out'.errors = 0
            /\ op[d].remote = ListUserSkills(skills) ) =>
            GetSyncStatus(ListAllSkills(fs'[d]), index'[d], ListResult(TRUE)).pendingPull = 0
    ]_vars

(***************************************************************************)
(* SpecApi: devices make API requests; the server answers each request and *)
(* each token refresh as it likes.  Every await of a call completes: the   *)
(* fetch resolves or rejects.                                              *)
(***************************************************************************)
ApiKinds == {"listSkills", "getSalt"}
ApiStatuses == {200, 401, 404, 500}
ApiTokens == {AccessToken(d) : d \in Devices} \cup {"at:new"}

NextApi ==
  \/ \E d \in Devices, kind \in ApiKinds : ApiRequest(d, kind)
  \/ \E d \in Devices, status \in ApiStatuses, thrown \in BOOLEAN :
       ApiResponse(d, status, thrown)
  \/ \E d \in Devices, refreshed \in BOOLEAN, token \in ApiTokens :
       ApiRefreshed(d, refreshed, token)

SpecApi ==
  /\ InitSeq
  /\ [][NextApi]_vars
  /\ \A d \in Devices :
       /\ WF_vars(\E status \in ApiStatuses, thrown \in BOOLEAN :
                    ApiResponse(d, status, thrown))
       /\ WF_vars(\E refreshed \in BOOLEAN, token \in ApiTokens :
                    ApiRefreshed(d, refreshed, token))

\* C30 (as claimed): every apiRequest call that has sent its request returns
\* a result, whatever the server answers.
C30_ApiRequestTerminates ==
  \A d \in Devices : (call[d].pc = "fetch") ~> (call[d].pc = "done")

====
